---------------------------- MODULE Spec2Model ----------------------------
(***************************************************************************)
(* SetFlow: the flow analysis engine of the setlist planner.               *)
(*                                                                         *)
(*   areKeysClashing        lib/types.ts   circle-of-fifths clash test     *)
(*   calculateFlowWarnings  lib/store.ts   key-clash / energy-drop /       *)
(*                                         slow-sequence warnings          *)
(*   calculateTimeStatus    lib/store.ts   under / good / close / over     *)
(*                                                                         *)
(* Each engine function is an operator computed as the code computes it.   *)
(* A specification per function draws the arguments of one call from       *)
(* bounded sets (Init) and performs the call (its action), leaving the     *)
(* returned value in the state next to the arguments.                      *)
(*                                                                         *)
(* The application around the engine (the useSongs and useSetlists stores, *)
(* the Index page and its handlers, the song form, the import dialog, the  *)
(* setlist settings and the setlist builder) is a state machine over the   *)
(* same variables: every handler is an action, and the render that React   *)
(* runs after a handler is part of that action.                            *)
(*                                                                         *)
(* Text typed by the user or read from a file is a sequence of one-        *)
(* character strings, so that parsing is computed, not assumed.            *)
(*                                                                         *)
(* Array indices are those of the code (0-based); Seq0(s, i) reads the     *)
(* element the code calls s[i].                                            *)
(***************************************************************************)
EXTENDS Integers, Sequences, FiniteSets, TLC

VARIABLES
    pc,                 \* the function or handler last entered, and whether it returned
    key1, mode1,        \* areKeysClashing: first (key, mode)
    key2, mode2,        \* areKeysClashing: second (key, mode)
    clashing,           \* areKeysClashing: returned boolean
    songs,              \* calculateFlowWarnings: the catalog, Song[]
    songIds,            \* calculateFlowWarnings: the setlist ordering, string[]
    warnings,           \* calculateFlowWarnings: returned FlowWarning[]
    totalSeconds,       \* calculateTimeStatus: argument
    targetMinutes,      \* calculateTimeStatus: argument
    changeoverMinutes,  \* calculateTimeStatus: argument
    timeStatus,         \* calculateTimeStatus: returned {status, targetSeconds, difference}
    setlists,           \* useSetlists: Setlist[]
    activeSetlistId,    \* useSetlists: string | null
    nextId,             \* generateId: the number of ids generated so far
    currentView,        \* Index: "library" | "setlist"
    editingSong,        \* Index: the song being edited, or null
    parsedSongs,        \* ImportSongs: ParsedSong[], the rows of the preview
    dragIndex,          \* SetlistBuilder: number | null
    dragOverIndex,      \* SetlistBuilder: number | null
    keyStr,             \* parseMusicalKey: argument
    parsedKey,          \* parseMusicalKey: returned {key, mode} | null
    pickerSong,         \* SongPicker getFlowWarning: argument, a song of the catalog
    flowWarning         \* SongPicker getFlowWarning: returned {hasWarning, message?}

vars == <<pc, key1, mode1, key2, mode2, clashing, songs, songIds, warnings,
          totalSeconds, targetMinutes, changeoverMinutes, timeStatus,
          setlists, activeSetlistId, nextId, currentView, editingSong, parsedSongs,
          dragIndex, dragOverIndex, keyStr, parsedKey, pickerSong, flowWarning>>

keyVars  == <<key1, mode1, key2, mode2, clashing>>
flowVars == <<songs, songIds, warnings>>
timeVars == <<totalSeconds, targetMinutes, changeoverMinutes, timeStatus>>
appVars  == <<setlists, activeSetlistId, nextId, currentView, editingSong, parsedSongs,
              dragIndex, dragOverIndex>>
textVars == <<keyStr, parsedKey>>
pickerVars == <<pickerSong, flowWarning>>

\* JavaScript's null, where an object is expected: a record, as objects are.
null == [null |-> TRUE]

\* JavaScript's null, where a string is expected.
nullId == "null"

\* JavaScript's null, where a number is expected.
nullIndex == -1

\* The value of a result variable before the call returns.
NoResult == "none"

Seq0(s, i) == s[i + 1]

Abs(x) == IF x < 0 THEN -x ELSE x

Min(a, b) == IF a <= b THEN a ELSE b

(***************************************************************************)
(* lib/types.ts                                                            *)
(***************************************************************************)

MUSICAL_KEYS == {"C", "C#", "D", "D#", "E", "F", "F#", "G", "G#", "A", "A#", "B"}

KEY_MODES == {"Major", "Minor"}

KEY_POSITIONS ==
    ("C" :> 0) @@ ("G" :> 1) @@ ("D" :> 2) @@ ("A" :> 3) @@ ("E" :> 4) @@ ("B" :> 5) @@
    ("F#" :> 6) @@ ("C#" :> 7) @@ ("G#" :> 8) @@ ("D#" :> 9) @@ ("A#" :> 10) @@ ("F" :> 11)

\* Mutant of sameKeyAndMode: || written for &&.
sameKeyOrMode(k1, m1, k2, m2) == k1 = k2 \/ m1 = m2

\* The short-circuit test: key1 === key2 && mode1 === mode2.
sameKeyAndMode(k1, m1, k2, m2) == k1 = k2 /\ m1 = m2

\* Mutant of circleDistance: Math.abs left out.
circleDistanceNoAbs(pos1, pos2) == Min(pos1 - pos2, 12 - (pos1 - pos2))

\* Math.min(Math.abs(pos1 - pos2), 12 - Math.abs(pos1 - pos2))
circleDistance(pos1, pos2) == Min(Abs(pos1 - pos2), 12 - Abs(pos1 - pos2))

\* A classifier whose threshold is one step too low: distance 4 would clash.
isClashDistanceOver3(distance) == distance > 3

\* Mutant of isClashDistance: the threshold of the comment above KEY_POSITIONS
\* ("more than 5").
isClashDistanceOver5(distance) == distance > 5

\* return distance > 4
isClashDistance(distance) == distance > 4

areKeysClashing(k1, m1, k2, m2) ==
    IF sameKeyAndMode(k1, m1, k2, m2)
    THEN FALSE
    ELSE LET pos1     == KEY_POSITIONS[k1]
             pos2     == KEY_POSITIONS[k2]
             distance == circleDistance(pos1, pos2)
         IN  isClashDistance(distance)


(***************************************************************************)
(* lib/store.ts: calculateFlowWarnings                                     *)
(***************************************************************************)

\* What Array.prototype.find returns when no element matches.
undefined == [undefined |-> TRUE]

\* songs.find(s => s.id === id): the first match, or undefined.
find(catalog, id) ==
    IF \E i \in 1..Len(catalog) : catalog[i].id = id
    THEN catalog[CHOOSE i \in 1..Len(catalog) :
                    /\ catalog[i].id = id
                    /\ \A j \in 1..(i - 1) : catalog[j].id # id]
    ELSE undefined

\* songIds.map(id => songs.find(...)).SelectSeq(s => s !== undefined)
resolveSongs(ids, catalog) ==
    LET found == [i \in 1..Len(ids) |-> find(catalog, ids[i])]
    IN  SelectSeq(found, LAMBDA s : s # undefined)

\* Mutant of keyClashWarning: the warning is put on the first song of the pair.
keyClashWarningOnPrev(i, prevSong, currentSong) ==
    [type      |-> "key-clash",
     songIndex |-> i - 1,
     message   |-> <<"Key clash: ", prevSong.musicalKey, " ", prevSong.keyMode, " -> ",
                     currentSong.musicalKey, " ", currentSong.keyMode>>]

\* The pushed key-clash warning; message holds the parts of the template string
\* in order (the arrow of the source text is written "->").
keyClashWarning(i, prevSong, currentSong) ==
    [type      |-> "key-clash",
     songIndex |-> i,
     message   |-> <<"Key clash: ", prevSong.musicalKey, " ", prevSong.keyMode, " -> ",
                     currentSong.musicalKey, " ", currentSong.keyMode>>]

\* The pushed energy-drop warning.
energyDropWarning(i, prevSong, currentSong) ==
    [type      |-> "energy-drop",
     songIndex |-> i,
     message   |-> <<"Energy drop: ", prevSong.energyLevel, " -> ", currentSong.energyLevel>>]

\* A slow-sequence warning put on the first song of the run of three.
slowSequenceWarningAtRunStart(i) ==
    [type      |-> "slow-sequence",
     songIndex |-> i - 2,
     message   |-> <<"3+ consecutive slow songs (BPM < 90)">>]

\* The pushed slow-sequence warning.
slowSequenceWarning(i) ==
    [type      |-> "slow-sequence",
     songIndex |-> i,
     message   |-> <<"3+ consecutive slow songs (BPM < 90)">>]

\* Mutant of isEnergyDrop: >= written for >.
isEnergyDropFrom2(energyDrop) == energyDrop >= 2

\* if (energyDrop > 2)
isEnergyDrop(energyDrop) == energyDrop > 2

\* Mutant of isSlow: <= written for <.
isSlowUpTo90(bpm) == bpm <= 90

\* setlistSongs[i].bpm < 90
isSlow(bpm) == bpm < 90

\* for (let i = 1; i < setlistSongs.length; i++) { ... }: the loop from index i on,
\* w the warnings pushed so far.
RECURSIVE pairLoop(_, _, _)
pairLoop(setlistSongs, i, w) ==
    IF ~(i < Len(setlistSongs))
    THEN w
    ELSE LET prevSong    == Seq0(setlistSongs, i - 1)
             currentSong == Seq0(setlistSongs, i)
             w1 == IF areKeysClashing(prevSong.musicalKey, prevSong.keyMode,
                                      currentSong.musicalKey, currentSong.keyMode)
                   THEN Append(w, keyClashWarning(i, prevSong, currentSong))
                   ELSE w
             energyDrop == prevSong.energyLevel - currentSong.energyLevel
             w2 == IF isEnergyDrop(energyDrop)
                   THEN Append(w1, energyDropWarning(i, prevSong, currentSong))
                   ELSE w1
         IN  pairLoop(setlistSongs, i + 1, w2)

\* while (i + 1 < setlistSongs.length && setlistSongs[i + 1].bpm < 90) i++;
\* the value of i when the while loop ends.
RECURSIVE skipRun(_, _)
skipRun(setlistSongs, i) ==
    IF i + 1 < Len(setlistSongs) /\ isSlow(Seq0(setlistSongs, i + 1).bpm)
    THEN skipRun(setlistSongs, i + 1)
    ELSE i

\* for (let i = 0; i < setlistSongs.length; i++) { ... }: the loop from index i on
\* with the counter slowCount, w the warnings pushed so far.
RECURSIVE slowLoop(_, _, _, _)
slowLoop(setlistSongs, i, slowCount, w) ==
    IF ~(i < Len(setlistSongs))
    THEN w
    ELSE IF isSlow(Seq0(setlistSongs, i).bpm)
         THEN IF slowCount + 1 >= 3
              THEN slowLoop(setlistSongs, skipRun(setlistSongs, i) + 1, slowCount + 1,
                            Append(w, slowSequenceWarning(i)))
              ELSE slowLoop(setlistSongs, i + 1, slowCount + 1, w)
         ELSE slowLoop(setlistSongs, i + 1, 0, w)

\* Mutant of calculateFlowWarnings: the slow-sequence pass runs first.
calculateFlowWarningsSlowFirst(ids, catalog) ==
    LET setlistSongs == resolveSongs(ids, catalog)
        slowWarnings == slowLoop(setlistSongs, 0, 0, <<>>)
    IN  pairLoop(setlistSongs, 1, slowWarnings)

\* The index in ids of the id that resolved to setlistSongs[k].
indexInIds(ids, catalog, k) ==
    CHOOSE i \in 0..(Len(ids) - 1) :
        /\ find(catalog, Seq0(ids, i)) # undefined
        /\ Cardinality({j \in 0..(i - 1) : find(catalog, Seq0(ids, j)) # undefined}) = k

\* Mutant of calculateFlowWarnings: songIndex is the song's index in songIds.
calculateFlowWarningsIndexInIds(ids, catalog) ==
    LET setlistSongs == resolveSongs(ids, catalog)
        pairWarnings == pairLoop(setlistSongs, 1, <<>>)
        w            == slowLoop(setlistSongs, 0, 0, pairWarnings)
    IN  [j \in 1..Len(w) |->
            [w[j] EXCEPT !.songIndex = indexInIds(ids, catalog, w[j].songIndex)]]

calculateFlowWarnings(ids, catalog) ==
    LET setlistSongs == resolveSongs(ids, catalog)
        pairWarnings == pairLoop(setlistSongs, 1, <<>>)
    IN  slowLoop(setlistSongs, 0, 0, pairWarnings)

(***************************************************************************)
(* lib/store.ts: calculateTimeStatus                                       *)
(***************************************************************************)

toleranceSeconds == 120

\* Mutant of targetSecondsOf: the target floored at zero.
targetSecondsFloored(target, changeover) ==
    IF (target - changeover) * 60 < 0 THEN 0 ELSE (target - changeover) * 60

\* const targetSeconds = (targetMinutes - changeoverMinutes) * 60
targetSecondsOf(target, changeover) == (target - changeover) * 60

\* Mutant of statusOf: >= written for > in the first two tests.
statusOfInclusive(difference) ==
    IF difference >= toleranceSeconds THEN "over"
    ELSE IF difference >= 0 THEN "close"
    ELSE IF difference >= -toleranceSeconds THEN "good"
    ELSE "under"

\* A chain that tests the size of the difference and not its sign.
statusOfMagnitude(difference) ==
    IF Abs(difference) > toleranceSeconds THEN "over"
    ELSE IF Abs(difference) > 0 THEN "close"
    ELSE "good"

\* The if / else if chain that sets status.
statusOf(difference) ==
    IF difference > toleranceSeconds THEN "over"
    ELSE IF difference > 0 THEN "close"
    ELSE IF difference >= -toleranceSeconds THEN "good"
    ELSE "under"

calculateTimeStatus(total, target, changeover) ==
    LET targetSeconds == targetSecondsOf(target, changeover)
        difference    == total - targetSeconds
    IN  [status |-> statusOf(difference),
         targetSeconds |-> targetSeconds,
         difference |-> difference]


(***************************************************************************)
(* The calls.  pc names the function called and whether it has returned.   *)
(***************************************************************************)

Calling(fn)  == pc = [fn |-> fn, at |-> "call"]
Returned(fn) == pc = [fn |-> fn, at |-> "return"]

\* The variables of the functions a specification does not call.
KeysIdle ==
    /\ key1 = "C" /\ mode1 = "Major" /\ key2 = "C" /\ mode2 = "Major"
    /\ clashing = NoResult
FlowIdle ==
    /\ songs = <<>> /\ songIds = <<>> /\ warnings = NoResult
TimeIdle ==
    /\ totalSeconds = 0 /\ targetMinutes = 0 /\ changeoverMinutes = 0
    /\ timeStatus = NoResult
AppIdle ==
    /\ setlists = <<>> /\ activeSetlistId = nullId /\ nextId = 0
    /\ currentView = "library" /\ editingSong = null /\ parsedSongs = <<>>
    /\ dragIndex = nullIndex /\ dragOverIndex = nullIndex
TextIdle ==
    /\ keyStr = <<>> /\ parsedKey = NoResult
PickerIdle ==
    /\ pickerSong = null /\ flowWarning = NoResult

(***************************************************************************)
(* areKeysClashing on every pair of (key, mode).                           *)
(***************************************************************************)

InitKeys ==
    /\ pc = [fn |-> "areKeysClashing", at |-> "call"]
    /\ key1 \in MUSICAL_KEYS /\ mode1 \in KEY_MODES
    /\ key2 \in MUSICAL_KEYS /\ mode2 \in KEY_MODES
    /\ clashing = NoResult
    /\ FlowIdle /\ TimeIdle /\ AppIdle /\ TextIdle /\ PickerIdle

CallAreKeysClashing ==
    /\ Calling("areKeysClashing")
    /\ clashing' = areKeysClashing(key1, mode1, key2, mode2)
    /\ pc' = [pc EXCEPT !.at = "return"]
    /\ UNCHANGED <<key1, mode1, key2, mode2, flowVars, timeVars, appVars, textVars, pickerVars>>

NextKeys == CallAreKeysClashing

SpecKeys == InitKeys /\ [][NextKeys]_vars

(***************************************************************************)
(* calculateFlowWarnings on a catalog and an ordering.                     *)
(*                                                                         *)
(* The catalog holds one song per id of CatalogIds, its fields drawn from   *)
(* a pool; the ordering is any sequence, repeats allowed, over the catalog *)
(* ids and the ids of StaleIds, which match no song.                       *)
(***************************************************************************)

\* Longest ordering given to calculateFlowWarnings in SpecFlow.
MaxSetlistLen == 4

\* Longest ordering given to calculateFlowWarnings in SpecSlow.
MaxSlowLen == 7

CatalogIds == <<"a", "b">>

StaleIds == {"x"}

Song(id, k, m, e, b, d) ==
    [id |-> id, musicalKey |-> k, keyMode |-> m, energyLevel |-> e, bpm |-> b,
     durationSeconds |-> d]

\* Song fields for SpecFlow: keys at circle distances 0, 1, 4 and 5, both modes,
\* energy differences from -4 to 4, tempo on either side of 90.
FlowPool ==
    { Song("", k, m, e, b, 200) :
        k \in {"C", "E", "B"}, m \in KEY_MODES, e \in {1, 3, 4, 5}, b \in {89, 90} }

\* Song fields for SpecSlow: tempo on either side of 90, two keys at circle
\* distance 6, an energy drop of 3.
SlowPool ==
    { Song("", k, "Major", e, b, 200) :
        k \in {"C", "F#"}, e \in {2, 5}, b \in {89, 90} }

\* The catalogs with one song per id of ids, fields from pool.
Catalogs(ids, pool) ==
    { [i \in 1..Len(ids) |-> [f[i] EXCEPT !.id = ids[i]]] : f \in [1..Len(ids) -> pool] }

\* The orderings of at most maxLen ids.
Orderings(idSet, maxLen) == UNION { [1..n -> idSet] : n \in 0..maxLen }

AllIds == {CatalogIds[i] : i \in 1..Len(CatalogIds)} \cup StaleIds

CallCalculateFlowWarnings ==
    /\ Calling("calculateFlowWarnings")
    /\ warnings' = calculateFlowWarnings(songIds, songs)
    /\ pc' = [pc EXCEPT !.at = "return"]
    /\ UNCHANGED <<songs, songIds, keyVars, timeVars, appVars, textVars, pickerVars>>

InitFlow ==
    /\ pc = [fn |-> "calculateFlowWarnings", at |-> "call"]
    /\ songs \in Catalogs(CatalogIds, FlowPool)
    /\ songIds \in Orderings(AllIds, MaxSetlistLen)
    /\ warnings = NoResult
    /\ KeysIdle /\ TimeIdle /\ AppIdle /\ TextIdle /\ PickerIdle

NextFlow == CallCalculateFlowWarnings

SpecFlow == InitFlow /\ [][NextFlow]_vars

InitSlow ==
    /\ pc = [fn |-> "calculateFlowWarnings", at |-> "call"]
    /\ songs \in Catalogs(CatalogIds, SlowPool)
    /\ songIds \in Orderings(AllIds, MaxSlowLen)
    /\ warnings = NoResult
    /\ KeysIdle /\ TimeIdle /\ AppIdle /\ TextIdle /\ PickerIdle

NextSlow == CallCalculateFlowWarnings

SpecSlow == InitSlow /\ [][NextSlow]_vars

(***************************************************************************)
(* calculateTimeStatus on integer arguments of either sign.                *)
(***************************************************************************)

\* Largest |totalSeconds| given to calculateTimeStatus.
MaxTotalSeconds == 300

\* Largest |targetMinutes| and |changeoverMinutes| given to calculateTimeStatus.
MaxMinutes == 3

InitTime ==
    /\ pc = [fn |-> "calculateTimeStatus", at |-> "call"]
    /\ totalSeconds \in -MaxTotalSeconds..MaxTotalSeconds
    /\ targetMinutes \in -MaxMinutes..MaxMinutes
    /\ changeoverMinutes \in -MaxMinutes..MaxMinutes
    /\ timeStatus = NoResult
    /\ KeysIdle /\ FlowIdle /\ AppIdle /\ TextIdle /\ PickerIdle

CallCalculateTimeStatus ==
    /\ Calling("calculateTimeStatus")
    /\ timeStatus' = calculateTimeStatus(totalSeconds, targetMinutes, changeoverMinutes)
    /\ pc' = [pc EXCEPT !.at = "return"]
    /\ UNCHANGED <<totalSeconds, targetMinutes, changeoverMinutes, keyVars, flowVars,
                   appVars, textVars, pickerVars>>

NextTime == CallCalculateTimeStatus

SpecTime == InitTime /\ [][NextTime]_vars


(***************************************************************************)
(* Text.  A string is a sequence of one-character strings.                 *)
(***************************************************************************)

\* All strings over an alphabet up to a length.
Texts(alphabet, maxLen) == UNION {[1..n -> alphabet] : n \in 0..maxLen}

isSpace(c) == c = " "

RECURSIVE trimStart(_)
trimStart(str) ==
    IF str # <<>> /\ isSpace(Head(str)) THEN trimStart(Tail(str)) ELSE str

RECURSIVE trimEnd(_)
trimEnd(str) ==
    IF str # <<>> /\ isSpace(str[Len(str)])
    THEN trimEnd(SubSeq(str, 1, Len(str) - 1))
    ELSE str

\* String.prototype.trim
trim(str) == trimEnd(trimStart(str))

\* String.prototype.endsWith
endsWith(str, suffix) ==
    /\ Len(suffix) <= Len(str)
    /\ SubSeq(str, Len(str) - Len(suffix) + 1, Len(str)) = suffix

\* str.slice(0, -1)
dropLast(str) == SubSeq(str, 1, Len(str) - 1)

(***************************************************************************)
(* ImportSongs: parseMusicalKey.                                           *)
(***************************************************************************)

\* const keyMap: the note names the parser knows, and the key each names.
keyMap ==
    <<"C">> :> "C" @@ <<"C", "#">> :> "C#" @@ <<"D", "b">> :> "C#" @@
    <<"D">> :> "D" @@ <<"D", "#">> :> "D#" @@ <<"E", "b">> :> "D#" @@
    <<"E">> :> "E" @@ <<"F", "b">> :> "E" @@
    <<"F">> :> "F" @@ <<"F", "#">> :> "F#" @@ <<"G", "b">> :> "F#" @@
    <<"G">> :> "G" @@ <<"G", "#">> :> "G#" @@ <<"A", "b">> :> "G#" @@
    <<"A">> :> "A" @@ <<"A", "#">> :> "A#" @@ <<"B", "b">> :> "A#" @@
    <<"B">> :> "B" @@ <<"C", "b">> :> "B"

\* const isMinor = cleaned.endsWith('m') && !cleaned.endsWith('#m') && cleaned.length > 1
isMinorKey(cleaned) ==
    /\ endsWith(cleaned, <<"m">>)
    /\ ~endsWith(cleaned, <<"#", "m">>)
    /\ Len(cleaned) > 1

\* parseMusicalKey(keyStr): {key, mode}, or null
parseMusicalKey(str) ==
    IF str = <<>> THEN null
    ELSE LET cleaned == trim(str)
             isMinor == isMinorKey(cleaned)
             keyPart == IF isMinor THEN dropLast(cleaned) ELSE cleaned
         IN  IF keyPart \notin DOMAIN keyMap THEN null
             ELSE [key  |-> keyMap[keyPart],
                   mode |-> IF isMinor THEN "Minor" ELSE "Major"]

\* The longest key text of a call.
MaxKeyLen == 3

\* The characters of the key texts: three note letters, the accidentals, the
\* minor mark and a blank.
KeyChars == {"C", "E", "F", "#", "b", "m", " "}

InitParseKey ==
    /\ pc = [fn |-> "parseMusicalKey", at |-> "call"]
    /\ keyStr \in Texts(KeyChars, MaxKeyLen)
    /\ parsedKey = NoResult
    /\ KeysIdle /\ FlowIdle /\ TimeIdle /\ AppIdle /\ PickerIdle

CallParseMusicalKey ==
    /\ Calling("parseMusicalKey")
    /\ parsedKey' = parseMusicalKey(keyStr)
    /\ pc' = [pc EXCEPT !.at = "return"]
    /\ UNCHANGED <<keyStr, keyVars, flowVars, timeVars, appVars, pickerVars>>

NextParseKey == CallParseMusicalKey

SpecParseKey == InitParseKey /\ [][NextParseKey]_vars


(***************************************************************************)
(* Numbers read from text.  A result that may be a number, NaN or null is  *)
(* a sequence: <<n>> for the number n, <<>> for NaN and for null.          *)
(***************************************************************************)

NaN == <<>>

isNaN(num) == num = NaN

DigitValue ==
    "0" :> 0 @@ "1" :> 1 @@ "2" :> 2 @@ "3" :> 3 @@ "4" :> 4 @@
    "5" :> 5 @@ "6" :> 6 @@ "7" :> 7 @@ "8" :> 8 @@ "9" :> 9

isDigit(c) == c \in DOMAIN DigitValue

allDigits(str) == \A i \in 1..Len(str) : isDigit(str[i])

\* The value of the longest prefix of digits, NaN when there is none.
RECURSIVE scanDigits(_, _, _)
scanDigits(str, acc, seen) ==
    IF str = <<>> \/ ~isDigit(Head(str))
    THEN IF seen THEN <<acc>> ELSE NaN
    ELSE scanDigits(Tail(str), acc * 10 + DigitValue[Head(str)], TRUE)

\* parseInt(str, 10): leading white space, an optional sign, then digits up to
\* the first character that is not one.
parseInt(str) ==
    LET s      == trimStart(str)
        signed == s # <<>> /\ Head(s) \in {"-", "+"}
        digits == scanDigits(IF signed THEN Tail(s) ELSE s, 0, FALSE)
    IN  IF isNaN(digits) THEN NaN
        ELSE IF signed /\ Head(s) = "-" THEN <<0 - digits[1]>>
        ELSE digits

\* x || fallback, for a number x that may be NaN or null: 0 is falsy too.
orElse(num, fallback) ==
    IF num = <<>> \/ num[1] = 0 THEN fallback ELSE num[1]

\* Math.max
Max(a, b) == IF a >= b THEN a ELSE b

\* The position of the colon of a text of the shape digits:rest, 0 if the text
\* does not begin with one to three digits and a colon.
colonAt(str) ==
    IF \E k \in 1..3 : /\ Len(str) > k
                       /\ str[k + 1] = ":"
                       /\ allDigits(SubSeq(str, 1, k))
    THEN CHOOSE k \in 2..4 : str[k] = ":" /\ allDigits(SubSeq(str, 1, k - 1))
    ELSE 0

minsText(str) == SubSeq(str, 1, colonAt(str) - 1)
secsText(str) == SubSeq(str, colonAt(str) + 1, Len(str))

\* /^(\d{1,3}):([0-5]?\d)$/ of ImportSongs
matchesImportDuration(str) ==
    /\ colonAt(str) > 0
    /\ Len(secsText(str)) \in {1, 2}
    /\ allDigits(secsText(str))
    /\ Len(secsText(str)) = 2 => DigitValue[secsText(str)[1]] <= 5

\* DURATION_REGEX of SongForm: /^(\d{1,3}):([0-5]\d)$/
matchesFormDuration(str) ==
    /\ colonAt(str) > 0
    /\ Len(secsText(str)) = 2
    /\ allDigits(secsText(str))
    /\ DigitValue[secsText(str)[1]] <= 5

\* types.ts parseDuration, for a text that passed DURATION_REGEX
parseDuration(duration) ==
    orElse(scanDigits(minsText(duration), 0, FALSE), 0) * 60
        + orElse(scanDigits(secsText(duration), 0, FALSE), 0)

(***************************************************************************)
(* ImportSongs: the other field parsers, validateRow, toSongFormData.      *)
(***************************************************************************)

\* parseDurationString(durationStr): seconds, or null
parseDurationString(durationStr) ==
    IF durationStr = <<>> THEN <<>>
    ELSE LET cleaned == trim(durationStr)
         IN  IF matchesImportDuration(cleaned)
             THEN <<parseInt(minsText(cleaned))[1] * 60
                      + parseInt(secsText(cleaned))[1]>>
             ELSE <<>>

\* num >= 1 && num <= 300
bpmInRange(num) == num >= 1 /\ num <= 300

\* parseBpm(bpmStr): a number from 1 to 300, or null
parseBpm(bpmStr) ==
    IF bpmStr = <<>> THEN <<>>
    ELSE LET num == parseInt(trim(bpmStr))
         IN  IF ~isNaN(num) /\ bpmInRange(num[1]) THEN num ELSE <<>>

\* cleaned.split('/')[0]
beforeSlash(str) ==
    IF \E i \in 1..Len(str) : str[i] = "/"
    THEN SubSeq(str, 1, (CHOOSE i \in 1..Len(str) :
                            str[i] = "/" /\ \A j \in 1..(i - 1) : str[j] # "/") - 1)
    ELSE str

\* parseEnergyLevel(energyStr): a number from 1 to 5, or null; "4/5" reads as 4
parseEnergyLevel(energyStr) ==
    IF energyStr = <<>> THEN <<>>
    ELSE LET cleaned == trim(energyStr)
             num     == parseInt(beforeSlash(cleaned))
         IN  IF ~isNaN(num) /\ num[1] >= 1 /\ num[1] <= 5 THEN num ELSE <<>>

\* A row of the table read from the file: the cells the model keeps.
Row(title, duration, bpm, musicalKey, energyLevel) ==
    [title |-> title, duration |-> duration, bpm |-> bpm,
     musicalKey |-> musicalKey, energyLevel |-> energyLevel]

\* !x for a number that may be null: null and 0 are falsy
falsy(num) == num = <<>> \/ num[1] = 0

\* validateRow(row): the errors of the row
rowErrors(row) ==
    (IF trim(row.title) = <<>> THEN <<"Title is required">> ELSE <<>>)
    \o (IF row.duration # <<>> /\ falsy(parseDurationString(row.duration))
        THEN <<"Invalid duration format (use mm:ss)">> ELSE <<>>)
    \o (IF row.bpm # <<>> /\ falsy(parseBpm(row.bpm))
        THEN <<"Invalid BPM (1-300)">> ELSE <<>>)
    \o (IF row.musicalKey # <<>> /\ parseMusicalKey(row.musicalKey) = null
        THEN <<"Invalid musical key">> ELSE <<>>)
    \o (IF row.energyLevel # <<>> /\ falsy(parseEnergyLevel(row.energyLevel))
        THEN <<"Invalid energy level (1-5)">> ELSE <<>>)

\* validateRow(row): ParsedSong
validateRow(row) ==
    LET errors == rowErrors(row)
        title  == trim(row.title)
    IN  [title       |-> title,
         duration    |-> trim(row.duration),
         bpm         |-> trim(row.bpm),
         musicalKey  |-> trim(row.musicalKey),
         energyLevel |-> trim(row.energyLevel),
         isValid     |-> errors = <<>> /\ title # <<>>,
         errors      |-> errors]

\* SongFormData: what the form and the import hand to the store.
SongFormData(title, durationSeconds, bpm, musicalKey, keyMode, energyLevel) ==
    [title |-> title, durationSeconds |-> durationSeconds, bpm |-> bpm,
     musicalKey |-> musicalKey, keyMode |-> keyMode, energyLevel |-> energyLevel]

\* toSongFormData(parsed)
toSongFormData(parsed) ==
    LET keyInfo == parseMusicalKey(parsed.musicalKey)
    IN  SongFormData(parsed.title,
                     orElse(parseDurationString(parsed.duration), 0),
                     orElse(parseBpm(parsed.bpm), 120),
                     IF keyInfo = null THEN "C" ELSE keyInfo.key,
                     IF keyInfo = null THEN "Major" ELSE keyInfo.mode,
                     orElse(parseEnergyLevel(parsed.energyLevel), 3))


(***************************************************************************)
(* SongForm: handleSubmit.  A form is the record of its fields at the      *)
(* moment of the submit: title, duration and bpm as typed, the key and     *)
(* mode selected, the energy level of the slider.                          *)
(***************************************************************************)

Form(title, duration, bpm, musicalKey, keyMode, energyLevel) ==
    [title |-> title, duration |-> duration, bpm |-> bpm,
     musicalKey |-> musicalKey, keyMode |-> keyMode, energyLevel |-> energyLevel]

\* validateDuration(value)
validateDuration(value) ==
    /\ trim(value) # <<>>
    /\ matchesFormDuration(value)

\* A form that only refuses a BPM that is not a number.
bpmRejectedNaNOnly(bpmValue) == isNaN(bpmValue)

\* isNaN(bpmValue) || bpmValue < 1 || bpmValue > 300
bpmRejected(bpmValue) ==
    isNaN(bpmValue) \/ bpmValue[1] < 1 \/ bpmValue[1] > 300

\* handleSubmit returns early, or reaches onSubmit
submitAccepted(form) ==
    /\ trim(form.title) # <<>>
    /\ validateDuration(form.duration)
    /\ ~bpmRejected(parseInt(form.bpm))

\* The data handleSubmit passes to onSubmit.
submittedData(form) ==
    SongFormData(trim(form.title),
                 parseDuration(form.duration),
                 parseInt(form.bpm)[1],
                 form.musicalKey, form.keyMode, form.energyLevel)

\* The levels of the energy slider and of the level buttons: min 1, max 5.
EnergyLevels == 1..5

(***************************************************************************)
(* store.ts: useSongs and useSetlists.  Each updater is the function that  *)
(* the hook passes to setState; Array.prototype.filter is SelectSeq.        *)
(* createdAt, updatedAt, the names of the setlists and the notes of the    *)
(* songs are left out: nothing reads them.                                 *)
(***************************************************************************)

\* generateId(): an id no earlier call returned
generateId(n) == ToString(n)

\* addSong: [...prev, newSong]
addSong(prev, id, song) == Append(prev, [id |-> id] @@ song)

\* updateSong: prev.map(song => song.id === id ? {...song, ...updates} : song)
updateSong(prev, id, updates) ==
    [i \in DOMAIN prev |->
        IF prev[i].id = id THEN updates @@ prev[i] ELSE prev[i]]

\* Array.prototype.includes
includes(arr, x) == \E i \in DOMAIN arr : arr[i] = x

\* deleteSong: prev.SelectSeq(song => song.id !== id)
deleteSong(prev, id) == LET Keep(song) == song.id # id IN SelectSeq(prev, Keep)

\* createSetlist: the new setlist
newSetlist(id) ==
    [id |-> id, songIds |-> <<>>, targetMinutes |-> 60, changeoverMinutes |-> 5]

\* createSetlist: [...prev, newSetlist]
createSetlist(prev, id) == Append(prev, newSetlist(id))

\* updateSetlist: prev.map(setlist => setlist.id === id ? {...setlist, ...updates} : setlist)
updateSetlist(prev, id, updates) ==
    [i \in DOMAIN prev |->
        IF prev[i].id = id THEN updates @@ prev[i] ELSE prev[i]]

\* deleteSetlist: prev.SelectSeq(setlist => setlist.id !== id)
deleteSetlist(prev, id) == LET Keep(setlist) == setlist.id # id IN SelectSeq(prev, Keep)

\* const activeSetlist = setlists.find(s => s.id === activeSetlistId) || null
activeSetlistOf(lists, activeId) ==
    IF find(lists, activeId) = undefined THEN null ELSE find(lists, activeId)

(***************************************************************************)
(* Index: what a render derives from the stores.                           *)
(***************************************************************************)

\* setlistSongs
setlistSongsOf(activeSetlist, catalog) ==
    IF activeSetlist = null THEN <<>>
    ELSE resolveSongs(activeSetlist.songIds, catalog)

\* The songs of the catalog whose id is in the list, in catalog order (the
\* stat of the picker), which counts a repeated id once.
songsInIds(ids, catalog) == LET Keep(song) == includes(ids, song.id) IN SelectSeq(catalog, Keep)

\* setlistSongs.reduce((sum, song) => sum + song.durationSeconds, 0)
RECURSIVE sumDurations(_)
sumDurations(setlistSongs) ==
    IF setlistSongs = <<>> THEN 0
    ELSE sumDurations(SubSeq(setlistSongs, 1, Len(setlistSongs) - 1))
             + setlistSongs[Len(setlistSongs)].durationSeconds

\* A total taken as the picker takes its own: over the songs of the catalog
\* whose id is in the list.
totalSecondsOfCatalogSongs(activeSetlist, catalog) ==
    IF activeSetlist = null THEN 0
    ELSE sumDurations(songsInIds(activeSetlist.songIds, catalog))

\* totalSeconds
totalSecondsOf(activeSetlist, catalog) ==
    sumDurations(setlistSongsOf(activeSetlist, catalog))

\* warnings
warningsOf(activeSetlist, catalog) ==
    IF activeSetlist = null THEN <<>>
    ELSE calculateFlowWarnings(activeSetlist.songIds, catalog)


(***************************************************************************)
(* The application: Index and the components it renders.  pc names the     *)
(* handler that ran last and its argument.  A modal dialog (the song form  *)
(* in edit mode, the import preview) and a drag in progress keep the other *)
(* controls out of reach.                                                  *)
(***************************************************************************)

\* The most ids generateId hands out in a run, and the most songs of a catalog.
MaxIds == 4

MaxSongs == 3

Done(fn, arg) == pc' = [fn |-> fn, at |-> "return", arg |-> arg]

Ran(fn) == pc.fn = fn /\ pc.at = "return"

ActiveSetlist == activeSetlistOf(setlists, activeSetlistId)

SetlistSongs == setlistSongsOf(ActiveSetlist, songs)

NoDialog == editingSong = null /\ parsedSongs = <<>>

\* No item of the list is being dragged.
NotDragging == dragIndex = nullIndex

Idle == NoDialog /\ NotDragging

InLibrary == currentView = "library" /\ Idle

\* The setlist view with a setlist on it.
InSetlist == currentView = "setlist" /\ Idle /\ ActiveSetlist # null

\* The builder is on the page: the setlist view of a setlist with songs.
BuilderShown ==
    /\ currentView = "setlist" /\ NoDialog
    /\ ActiveSetlist # null /\ Len(SetlistSongs) > 0

\* SetlistBuilder keeps its state while it is on the page and starts from
\* null when it is put on the page again; no handler that can take it off the
\* page runs during a drag of an item.
BuilderKept ==
    dragOverIndex' = IF BuilderShown' THEN dragOverIndex ELSE nullIndex

\* The render that follows a handler: Index derives the setlist's songs, the
\* total and the warnings from the stores, and TimeDisplay, which is on the
\* page in the setlist view of an active setlist, calls calculateTimeStatus.
Render ==
    LET activeSetlist == activeSetlistOf(setlists', activeSetlistId')
    IN  /\ songIds' = IF activeSetlist = null THEN <<>> ELSE activeSetlist.songIds
        /\ warnings' = warningsOf(activeSetlist, songs')
        /\ totalSeconds' = totalSecondsOf(activeSetlist, songs')
        /\ IF activeSetlist # null /\ currentView' = "setlist"
           THEN /\ targetMinutes' = activeSetlist.targetMinutes
                /\ changeoverMinutes' = activeSetlist.changeoverMinutes
                /\ timeStatus' = calculateTimeStatus(totalSeconds',
                                     activeSetlist.targetMinutes,
                                     activeSetlist.changeoverMinutes)
           ELSE /\ targetMinutes' = 0 /\ changeoverMinutes' = 0
                /\ timeStatus' = NoResult

\* The first run: nothing in localStorage, the library view, nothing open.
InitApp ==
    /\ pc = [fn |-> "Index", at |-> "return", arg |-> nullId]
    /\ songs = <<>> /\ songIds = <<>> /\ warnings = <<>>
    /\ TimeIdle /\ AppIdle /\ KeysIdle /\ TextIdle /\ PickerIdle

\* Loading the page again: the stores come back from localStorage, the view
\* is the setlist view when there are songs, the dialogs are closed.
Reload ==
    /\ Done("Index", nullId)
    /\ currentView' = IF Len(songs) > 0 THEN "setlist" ELSE "library"
    /\ editingSong' = null /\ parsedSongs' = <<>>
    /\ dragIndex' = nullIndex /\ dragOverIndex' = nullIndex
    /\ UNCHANGED <<songs, setlists, activeSetlistId, nextId, keyVars, textVars, pickerVars>>
    /\ Render

\* The Library and Setlist buttons of the header.
SetCurrentView(view) ==
    /\ Idle
    /\ view # currentView
    /\ Done("setCurrentView", view)
    /\ currentView' = view
    /\ UNCHANGED <<songs, setlists, activeSetlistId, nextId, editingSong, parsedSongs,
                   dragIndex, keyVars, textVars, pickerVars>>
    /\ BuilderKept
    /\ Render

\* SongCard onEdit: setEditingSong(song)
SetEditingSong(song) ==
    /\ InLibrary
    /\ includes(songs, song)
    /\ Done("setEditingSong", song.id)
    /\ editingSong' = song
    /\ UNCHANGED <<songs, setlists, activeSetlistId, nextId, currentView, parsedSongs,
                   dragIndex, dragOverIndex, keyVars, textVars, pickerVars>>
    /\ Render

\* SongForm onCancel and the closing of its dialog
CancelSongForm ==
    /\ editingSong # null
    /\ Done("onCancel", nullId)
    /\ editingSong' = null
    /\ UNCHANGED <<songs, setlists, activeSetlistId, nextId, currentView, parsedSongs,
                   dragIndex, dragOverIndex, keyVars, textVars, pickerVars>>
    /\ Render

\* SongForm handleSubmit with onSubmit = handleAddSong
HandleAddSong(form) ==
    /\ InLibrary
    /\ form.energyLevel \in EnergyLevels
    /\ submitAccepted(form)
    /\ nextId < MaxIds /\ Len(songs) < MaxSongs
    /\ Done("handleAddSong", generateId(nextId))
    /\ songs' = addSong(songs, generateId(nextId), submittedData(form))
    /\ nextId' = nextId + 1
    /\ UNCHANGED <<setlists, activeSetlistId, currentView, editingSong, parsedSongs,
                   dragIndex, dragOverIndex, keyVars, textVars, pickerVars>>
    /\ Render

\* SongForm handleSubmit with onSubmit = handleEditSong; the energy level is
\* the one the song had unless the slider was moved.
HandleEditSong(form) ==
    /\ editingSong # null
    /\ form.energyLevel \in EnergyLevels \cup {editingSong.energyLevel}
    /\ submitAccepted(form)
    /\ Done("handleEditSong", editingSong.id)
    /\ songs' = updateSong(songs, editingSong.id, submittedData(form))
    /\ editingSong' = null
    /\ UNCHANGED <<setlists, activeSetlistId, nextId, currentView, parsedSongs,
                   dragIndex, dragOverIndex, keyVars, textVars, pickerVars>>
    /\ Render

\* A delete that takes the song out of the catalog and of the active setlist
\* alone.
HandleDeleteSongFromActive(id) ==
    /\ InLibrary
    /\ \E i \in DOMAIN songs : songs[i].id = id
    /\ Done("handleDeleteSong", id)
    /\ songs' = deleteSong(songs, id)
    /\ setlists' =
           [i \in DOMAIN setlists |->
               IF setlists[i].id = activeSetlistId /\ includes(setlists[i].songIds, id)
               THEN LET Keep(sid) == sid # id
                    IN  [songIds |-> SelectSeq(setlists[i].songIds, Keep)] @@ setlists[i]
               ELSE setlists[i]]
    /\ UNCHANGED <<activeSetlistId, nextId, currentView, editingSong, parsedSongs,
                   dragIndex, dragOverIndex, keyVars, textVars, pickerVars>>
    /\ Render

\* handleDeleteSong(id): the song leaves the catalog and every setlist
HandleDeleteSong(id) ==
    /\ InLibrary
    /\ \E i \in DOMAIN songs : songs[i].id = id
    /\ Done("handleDeleteSong", id)
    /\ songs' = deleteSong(songs, id)
    /\ setlists' =
           [i \in DOMAIN setlists |->
               IF includes(setlists[i].songIds, id)
               THEN LET Keep(sid) == sid # id
                    IN  [songIds |-> SelectSeq(setlists[i].songIds, Keep)] @@ setlists[i]
               ELSE setlists[i]]
    /\ UNCHANGED <<activeSetlistId, nextId, currentView, editingSong, parsedSongs,
                   dragIndex, dragOverIndex, keyVars, textVars, pickerVars>>
    /\ Render


\* Array.prototype.map over the rows: rows.map(validateRow)
validateRows(rows) == [i \in DOMAIN rows |-> validateRow(rows[i])]

\* An import that lets the rows with errors through.
validSongsUnfiltered(parsed) == [i \in DOMAIN parsed |-> toSongFormData(parsed[i])]

\* handleImport: parsedSongs.SelectSeq(s => s.isValid && s.title).map(toSongFormData)
validSongsOf(parsed) ==
    LET Keep(s) == s.isValid /\ s.title # <<>>
        kept    == SelectSeq(parsed, Keep)
    IN  [i \in DOMAIN kept |-> toSongFormData(kept[i])]

\* handleImportSongs: songsData.forEach(songData => addSong(songData)), each
\* addSong with an id of its own
RECURSIVE importSongs(_, _, _)
importSongs(prev, n, songsData) ==
    IF songsData = <<>> THEN prev
    ELSE importSongs(addSong(prev, generateId(n), Head(songsData)), n + 1, Tail(songsData))

\* ImportSongs handleFile, from the rows the file was split into: the preview
HandleFile(rows) ==
    /\ InLibrary
    /\ Done("handleFile", nullId)
    /\ parsedSongs' = validateRows(rows)
    /\ UNCHANGED <<songs, setlists, activeSetlistId, nextId, currentView, editingSong,
                   dragIndex, dragOverIndex, keyVars, textVars, pickerVars>>
    /\ Render

\* ImportSongs handleImport, then Index handleImportSongs and handleClose; pc
\* keeps the number of rows of the preview that was confirmed
HandleImport ==
    /\ parsedSongs # <<>>
    /\ Done("handleImport", Len(parsedSongs))
    /\ LET validSongs == validSongsOf(parsedSongs)
       IN  /\ nextId + Len(validSongs) <= MaxIds
           /\ Len(songs) + Len(validSongs) <= MaxSongs
           /\ IF Len(validSongs) > 0
              THEN /\ songs' = importSongs(songs, nextId, validSongs)
                   /\ nextId' = nextId + Len(validSongs)
                   /\ parsedSongs' = <<>>
              ELSE UNCHANGED <<songs, nextId, parsedSongs>>
    /\ UNCHANGED <<setlists, activeSetlistId, currentView, editingSong,
                   dragIndex, dragOverIndex, keyVars, textVars, pickerVars>>
    /\ Render

\* ImportSongs handleClose (Cancel, Back, closing the dialog)
HandleClose ==
    /\ parsedSongs # <<>>
    /\ Done("handleClose", nullId)
    /\ parsedSongs' = <<>>
    /\ UNCHANGED <<songs, setlists, activeSetlistId, nextId, currentView, editingSong,
                   dragIndex, dragOverIndex, keyVars, textVars, pickerVars>>
    /\ Render

\* handleCreateSetlist: the button of the setlist view without a setlist
HandleCreateSetlist ==
    /\ currentView = "setlist" /\ Idle /\ ActiveSetlist = null
    /\ nextId < MaxIds
    /\ Done("handleCreateSetlist", generateId(nextId))
    /\ setlists' = createSetlist(setlists, generateId(nextId))
    /\ activeSetlistId' = generateId(nextId)
    /\ nextId' = nextId + 1
    /\ currentView' = "setlist"
    /\ UNCHANGED <<songs, editingSong, parsedSongs, dragIndex, dragOverIndex,
                   keyVars, textVars, pickerVars>>
    /\ Render

\* An add that is refused when the list it would make has a flow warning.
songIdsAfterAddUnlessWarned(ids, songId) ==
    IF includes(ids, songId) \/ calculateFlowWarnings(Append(ids, songId), songs) # <<>>
    THEN ids
    ELSE Append(ids, songId)

\* handleAddToSetlist with a setlist: [...activeSetlist.songIds, songId] unless
\* the id is in it
songIdsAfterAdd(ids, songId) ==
    IF includes(ids, songId) THEN ids ELSE Append(ids, songId)

\* handleRemoveFromSetlist: activeSetlist.songIds.SelectSeq(id => id !== songId)
songIdsAfterRemove(ids, songId) == LET Keep(id) == id # songId IN SelectSeq(ids, Keep)

\* handleAddToSetlist(songId): the stores after it
AddToSetlist(songId) ==
    IF ActiveSetlist = null
    THEN /\ nextId < MaxIds
         /\ setlists' = updateSetlist(createSetlist(setlists, generateId(nextId)),
                                      generateId(nextId), [songIds |-> <<songId>>])
         /\ activeSetlistId' = generateId(nextId)
         /\ nextId' = nextId + 1
    ELSE /\ setlists' =
                IF includes(ActiveSetlist.songIds, songId) THEN setlists
                ELSE updateSetlist(setlists, ActiveSetlist.id,
                         [songIds |-> songIdsAfterAdd(ActiveSetlist.songIds, songId)])
         /\ UNCHANGED <<activeSetlistId, nextId>>

\* handleRemoveFromSetlist(songId): the stores after it
RemoveFromSetlist(songId) ==
    /\ setlists' =
           IF ActiveSetlist = null THEN setlists
           ELSE updateSetlist(setlists, ActiveSetlist.id,
                    [songIds |-> songIdsAfterRemove(ActiveSetlist.songIds, songId)])
    /\ UNCHANGED <<activeSetlistId, nextId>>

\* SongCard onAddToSetlist: handleAddToSetlist(song.id), from the library
HandleAddToSetlist(songId) ==
    /\ InLibrary
    /\ \E i \in DOMAIN songs : songs[i].id = songId
    /\ Done("handleAddToSetlist", songId)
    /\ AddToSetlist(songId)
    /\ UNCHANGED <<songs, currentView, editingSong, parsedSongs, dragIndex,
                   dragOverIndex, keyVars, textVars, pickerVars>>
    /\ Render

\* SongPicker handleToggleSong(songId): remove when in the setlist, else add
HandleToggleSong(songId) ==
    /\ InSetlist
    /\ \E i \in DOMAIN songs : songs[i].id = songId
    /\ Done("handleToggleSong", songId)
    /\ IF includes(ActiveSetlist.songIds, songId)
       THEN RemoveFromSetlist(songId)
       ELSE AddToSetlist(songId)
    /\ UNCHANGED <<songs, currentView, editingSong, parsedSongs, dragIndex,
                   keyVars, textVars, pickerVars>>
    /\ BuilderKept
    /\ Render

\* SetlistBuilder onRemove: handleRemoveFromSetlist(song.id)
HandleRemoveFromSetlist(songId) ==
    /\ InSetlist
    /\ \E i \in DOMAIN SetlistSongs : SetlistSongs[i].id = songId
    /\ Done("handleRemoveFromSetlist", songId)
    /\ RemoveFromSetlist(songId)
    /\ UNCHANGED <<songs, currentView, editingSong, parsedSongs, dragIndex,
                   keyVars, textVars, pickerVars>>
    /\ BuilderKept
    /\ Render


\* newSongIds.splice(from, 1) then newSongIds.splice(to, 0, removed), on a
\* copy of the list, with 0-based positions inside it
spliceMove(ids, from, to) ==
    LET removed == Seq0(ids, from)
        rest    == SubSeq(ids, 1, from) \o SubSeq(ids, from + 2, Len(ids))
        at      == Min(to, Len(rest))
    IN  SubSeq(rest, 1, at) \o <<removed>> \o SubSeq(rest, at + 1, Len(rest))

\* A reorder that is refused when the new order has a flow warning.
reorderedUnlessWarned(ids, from, to) ==
    IF calculateFlowWarnings(spliceMove(ids, from, to), songs) # <<>>
    THEN ids
    ELSE spliceMove(ids, from, to)

\* A reorder that puts the dragged id at its new place and leaves it at the
\* old one as well.
reorderedByCopy(ids, from, to) ==
    LET at == Min(to, Len(ids))
    IN  SubSeq(ids, 1, at) \o <<Seq0(ids, from)>> \o SubSeq(ids, at + 1, Len(ids))

\* handleDragEnd: the list handed to onReorder
reordered(ids, from, to) == spliceMove(ids, from, to)

\* SetlistBuilder handleDragStart(e, index)
HandleDragStart(index) ==
    /\ BuilderShown /\ NotDragging
    /\ index \in 0..(Len(SetlistSongs) - 1)
    /\ Done("handleDragStart", index)
    /\ dragIndex' = index
    /\ UNCHANGED <<songs, setlists, activeSetlistId, nextId, currentView, editingSong,
                   parsedSongs, dragOverIndex, keyVars, textVars, pickerVars>>
    /\ Render

\* SetlistBuilder handleDragOver(e, index): something is dragged over the
\* item at index, an item of the list or not
HandleDragOver(index) ==
    /\ BuilderShown
    /\ index \in 0..(Len(SetlistSongs) - 1)
    /\ index # dragOverIndex
    /\ Done("handleDragOver", index)
    /\ dragOverIndex' = index
    /\ UNCHANGED <<songs, setlists, activeSetlistId, nextId, currentView, editingSong,
                   parsedSongs, dragIndex, keyVars, textVars, pickerVars>>
    /\ Render

\* SetlistBuilder handleDragEnd, then Index handleReorderSongs(newSongIds)
HandleDragEnd ==
    /\ BuilderShown /\ dragIndex # nullIndex
    /\ Done("handleDragEnd", <<dragIndex, dragOverIndex>>)
    /\ setlists' =
           IF dragOverIndex # nullIndex /\ dragIndex # dragOverIndex
           THEN updateSetlist(setlists, ActiveSetlist.id,
                    [songIds |-> reordered(ActiveSetlist.songIds, dragIndex, dragOverIndex)])
           ELSE setlists
    /\ dragIndex' = nullIndex /\ dragOverIndex' = nullIndex
    /\ UNCHANGED <<songs, activeSetlistId, nextId, currentView, editingSong,
                   parsedSongs, keyVars, textVars, pickerVars>>
    /\ Render

\* A setting that keeps a negative entry.
minutesOfEntrySigned(text) == orElse(parseInt(text), 0)

\* Math.max(0, parseInt(e.target.value) || 0)
minutesOfEntry(text) == Max(0, orElse(parseInt(text), 0))

\* SetlistSettings handleSlotTimeChange, then onUpdate: updateSetlist
HandleSlotTimeChange(text) ==
    /\ InSetlist
    /\ Done("handleSlotTimeChange", text)
    /\ setlists' = updateSetlist(setlists, ActiveSetlist.id,
                       [targetMinutes     |-> minutesOfEntry(text),
                        changeoverMinutes |-> ActiveSetlist.changeoverMinutes])
    /\ UNCHANGED <<songs, activeSetlistId, nextId, currentView, editingSong,
                   parsedSongs, dragIndex, dragOverIndex, keyVars, textVars, pickerVars>>
    /\ Render

\* SetlistSettings handleChangeoverChange, then onUpdate: updateSetlist
HandleChangeoverChange(text) ==
    /\ InSetlist
    /\ Done("handleChangeoverChange", text)
    /\ setlists' = updateSetlist(setlists, ActiveSetlist.id,
                       [targetMinutes     |-> ActiveSetlist.targetMinutes,
                        changeoverMinutes |-> minutesOfEntry(text)])
    /\ UNCHANGED <<songs, activeSetlistId, nextId, currentView, editingSong,
                   parsedSongs, dragIndex, dragOverIndex, keyVars, textVars, pickerVars>>
    /\ Render

\* A delete of the setlist that leaves activeSetlistId as it is.
HandleDeleteSetlistKeepingActiveId ==
    /\ InSetlist
    /\ Done("deleteSetlist", ActiveSetlist.id)
    /\ setlists' = deleteSetlist(setlists, ActiveSetlist.id)
    /\ UNCHANGED <<songs, activeSetlistId, nextId, currentView, editingSong, parsedSongs,
                   dragIndex, keyVars, textVars, pickerVars>>
    /\ BuilderKept
    /\ Render

\* The Delete Setlist button, confirmed: deleteSetlist(activeSetlist.id)
HandleDeleteSetlist ==
    /\ InSetlist
    /\ Done("deleteSetlist", ActiveSetlist.id)
    /\ setlists' = deleteSetlist(setlists, ActiveSetlist.id)
    /\ activeSetlistId' = IF activeSetlistId = ActiveSetlist.id THEN nullId
                          ELSE activeSetlistId
    /\ UNCHANGED <<songs, nextId, currentView, editingSong, parsedSongs,
                   dragIndex, keyVars, textVars, pickerVars>>
    /\ BuilderKept
    /\ Render


(***************************************************************************)
(* SpecApp: the catalog and the setlist from the first run, with few        *)
(* different songs; the minutes fields have a specification of their own,  *)
(* and so have the setlists of an earlier run (SpecLists) and the drags     *)
(* that do not begin on an item of the list (SpecBuilder).                 *)
(***************************************************************************)

\* The form submitted: a song in C, 3:20 long.
AppForms ==
    {Form(<<"T">>, <<"3", ":", "2", "0">>, <<"1", "2", "0">>, "C", "Major", 3)}

\* The file imported: one row with a title and a key, B, five steps from C,
\* and nothing else.
AppRows == {<<Row(<<"T">>, <<>>, <<>>, <<"B">>, <<>>)>>}

NextApp ==
    \/ Reload
    \/ \E view \in {"library", "setlist"} : SetCurrentView(view)
    \/ \E i \in DOMAIN songs : SetEditingSong(songs[i])
    \/ CancelSongForm
    \/ \E form \in AppForms : HandleAddSong(form)
    \/ \E form \in AppForms : HandleEditSong(form)
    \/ \E i \in DOMAIN songs : HandleDeleteSong(songs[i].id)
    \/ \E rows \in AppRows : HandleFile(rows)
    \/ HandleImport
    \/ HandleClose
    \/ HandleCreateSetlist
    \/ \E i \in DOMAIN songs : HandleAddToSetlist(songs[i].id)
    \/ \E i \in DOMAIN songs : HandleToggleSong(songs[i].id)
    \/ \E i \in DOMAIN songs : HandleRemoveFromSetlist(songs[i].id)
    \/ \E index \in 0..(MaxSongs - 1) : HandleDragStart(index)
    \/ \E index \in 0..(MaxSongs - 1) : dragIndex # nullIndex /\ HandleDragOver(index)
    \/ HandleDragEnd
    \/ HandleDeleteSetlist

SpecApp == InitApp /\ [][NextApp]_vars

(***************************************************************************)
(* SpecSettings: the minutes fields of SetlistSettings, typed into freely, *)
(* on setlists created in both ways.                                       *)
(***************************************************************************)

\* The entries typed into a minutes field: a number field hands over digits,
\* a sign, a point, or nothing.  They read as NaN, NaN, 0, 4, 40, 4, -4, -40.
Entries ==
    {<<>>, <<"-">>, <<"0">>, <<"4">>, <<"4", "0">>, <<"4", ".", "5">>,
     <<"-", "4">>, <<"-", "4", "0">>}

SettingsForm == Form(<<"T">>, <<"3", ":", "2", "0">>, <<"1", "2", "0">>, "C", "Major", 3)

NextSettings ==
    \/ Reload
    \/ \E view \in {"library", "setlist"} : SetCurrentView(view)
    \/ songs = <<>> /\ HandleAddSong(SettingsForm)
    \/ HandleCreateSetlist
    \/ \E i \in DOMAIN songs : HandleAddToSetlist(songs[i].id)
    \/ \E text \in Entries : HandleSlotTimeChange(text)
    \/ \E text \in Entries : HandleChangeoverChange(text)
    \/ HandleDeleteSetlist

SpecSettings == InitApp /\ [][NextSettings]_vars


(***************************************************************************)
(* SpecCatalog: the song form and the import, with BPM and energy entries  *)
(* inside, on the edge of and outside their ranges.                        *)
(***************************************************************************)

\* BPM as typed or as found in a cell: nothing, 0, 300, 301, not a number.
BpmTexts == {<<>>, <<"0">>, <<"3", "0", "0">>, <<"3", "0", "1">>, <<"x">>}

\* Energy as found in a cell: nothing, 0, 5, 6, 4/5, 7/5, not a number.
EnergyTexts ==
    {<<>>, <<"0">>, <<"5">>, <<"6">>, <<"4", "/", "5">>, <<"7", "/", "5">>, <<"x">>}

CatalogForms ==
    {Form(<<"T">>, <<"3", ":", "2", "0">>, bpm, "C", "Major", e) :
        bpm \in BpmTexts, e \in {1, 5}}

\* Files of one row.
CatalogRows ==
    {<<Row(<<"T">>, <<>>, bpm, <<>>, e)>> : bpm \in BpmTexts, e \in EnergyTexts}

NextCatalog ==
    \/ \E form \in CatalogForms : Len(songs) < 2 /\ HandleAddSong(form)
    \/ \E i \in DOMAIN songs : SetEditingSong(songs[i])
    \/ CancelSongForm
    \/ \E form \in CatalogForms : HandleEditSong(form)
    \/ \E i \in DOMAIN songs : HandleDeleteSong(songs[i].id)
    \/ \E rows \in CatalogRows : Len(songs) < 2 /\ HandleFile(rows)
    \/ HandleImport
    \/ HandleClose

SpecCatalog == InitApp /\ [][NextCatalog]_vars


(***************************************************************************)
(* SpecImport: files of several rows, some of them with errors, imported   *)
(* into a catalog that may hold songs already.                             *)
(***************************************************************************)

\* The most rows of a file.
MaxRows == 3

\* The rows of the files: A is complete, B has a title only, C has a BPM out
\* of range, and one row has a blank for a title.
ImportRowPool ==
    {Row(<<"A">>, <<"3", ":", "4", "5">>, <<"1", "2", "0">>, <<"G", "m">>, <<"3", "/", "5">>),
     Row(<<"B">>, <<>>, <<>>, <<>>, <<>>),
     Row(<<"C">>, <<>>, <<"3", "0", "1">>, <<>>, <<>>),
     Row(<<" ">>, <<"3", ":", "4", "5">>, <<>>, <<>>, <<>>)}

ImportFiles == UNION {[1..n -> ImportRowPool] : n \in 1..MaxRows}

ImportForm == Form(<<"T">>, <<"3", ":", "2", "0">>, <<"9", "0">>, "E", "Minor", 2)

NextImport ==
    \/ HandleAddSong(ImportForm)
    \/ \E rows \in ImportFiles : HandleFile(rows)
    \/ HandleImport
    \/ HandleClose

SpecImport == InitApp /\ [][NextImport]_vars


(***************************************************************************)
(* SpecRender: the first render of Index over the stores as loadFromStorage *)
(* returns them.  localStorage is read as it is, so a setlist may hold an  *)
(* id that is not in the catalog, or an id twice, and the active id may    *)
(* name no setlist.                                                        *)
(***************************************************************************)

\* Two songs, five steps and four energy levels apart, of different lengths.
RenderSongs ==
    <<Song("a", "C", "Major", 5, 120, 200), Song("b", "B", "Major", 1, 80, 45)>>

RenderCatalogs ==
    {<<>>, <<RenderSongs[1]>>, <<RenderSongs[1], RenderSongs[2]>>,
     <<RenderSongs[2], RenderSongs[1]>>}

\* No setlist, one setlist, or that setlist and a second one.
RenderSetlists ==
    {<<>>}
    \cup {<<[id |-> "s1", songIds |-> ids, targetMinutes |-> t, changeoverMinutes |-> c]>> :
             ids \in Orderings(AllIds, MaxSetlistLen), t \in {0, 4}, c \in {0, 5}}
    \cup {<<[id |-> "s1", songIds |-> ids, targetMinutes |-> 4, changeoverMinutes |-> 0],
            [id |-> "s2", songIds |-> <<"b">>, targetMinutes |-> 60, changeoverMinutes |-> 5]>> :
             ids \in Orderings(AllIds, MaxSetlistLen)}

InitRender ==
    /\ pc = [fn |-> "Index", at |-> "call", arg |-> nullId]
    /\ songs \in RenderCatalogs
    /\ setlists \in RenderSetlists
    /\ activeSetlistId \in {nullId, "s1", "s2"}
    /\ currentView \in {"library", "setlist"}
    /\ songIds = <<>> /\ warnings = NoResult
    /\ nextId = 0 /\ editingSong = null /\ parsedSongs = <<>>
    /\ dragIndex = nullIndex /\ dragOverIndex = nullIndex
    /\ TimeIdle /\ KeysIdle /\ TextIdle /\ PickerIdle

\* A render whose call of calculateFlowWarnings drops the ids it cannot
\* resolve from the array it was given, which is the array of the store.
RenderIndexDroppingStaleIds ==
    /\ pc = [fn |-> "Index", at |-> "call", arg |-> nullId]
    /\ Done("Index", nullId)
    /\ setlists' =
           IF ActiveSetlist = null THEN setlists
           ELSE LET Keep(id) == find(songs, id) # undefined
                IN  updateSetlist(setlists, ActiveSetlist.id,
                        [songIds |-> SelectSeq(ActiveSetlist.songIds, Keep)])
    /\ UNCHANGED <<songs, activeSetlistId, nextId, currentView, editingSong,
                   parsedSongs, dragIndex, dragOverIndex, keyVars, textVars, pickerVars>>
    /\ Render

\* Index, rendered: setlistSongs, totalSeconds and warnings are computed, and
\* TimeDisplay computes the time status; the stores are only read.
RenderIndex ==
    /\ pc = [fn |-> "Index", at |-> "call", arg |-> nullId]
    /\ Done("Index", nullId)
    /\ UNCHANGED <<songs, setlists, activeSetlistId, nextId, currentView, editingSong,
                   parsedSongs, dragIndex, dragOverIndex, keyVars, textVars, pickerVars>>
    /\ Render

NextRender == RenderIndex

SpecRender == InitRender /\ [][NextRender]_vars


(***************************************************************************)
(* SongPicker: getFlowWarning, the preview shown on the row of a song that *)
(* is not in the setlist.  The titles are left out of the messages, as     *)
(* they are left out of the songs.                                         *)
(***************************************************************************)

\* Index: setlistSongs.length > 0 ? setlistSongs[setlistSongs.length - 1] : null
lastSongInSetlistOf(setlistSongs) ==
    IF Len(setlistSongs) > 0 THEN setlistSongs[Len(setlistSongs)] ELSE null

\* A preview that looks at the keys and not at the energy levels.
getFlowWarningKeysOnly(lastSongInSetlist, song) ==
    IF lastSongInSetlist = null THEN [hasWarning |-> FALSE]
    ELSE IF areKeysClashing(lastSongInSetlist.musicalKey, lastSongInSetlist.keyMode,
                            song.musicalKey, song.keyMode)
    THEN [hasWarning |-> TRUE,
          message    |-> <<"Key clash with ", lastSongInSetlist.musicalKey, " -> ",
                           song.musicalKey>>]
    ELSE [hasWarning |-> FALSE]

\* getFlowWarning(song), with the lastSongInSetlist prop of the picker
getFlowWarning(lastSongInSetlist, song) ==
    IF lastSongInSetlist = null THEN [hasWarning |-> FALSE]
    ELSE IF areKeysClashing(lastSongInSetlist.musicalKey, lastSongInSetlist.keyMode,
                            song.musicalKey, song.keyMode)
    THEN [hasWarning |-> TRUE,
          message    |-> <<"Key clash with ", lastSongInSetlist.musicalKey, " -> ",
                           song.musicalKey>>]
    ELSE IF lastSongInSetlist.energyLevel - song.energyLevel > 2
    THEN [hasWarning |-> TRUE,
          message    |-> <<"Big energy drop from ", lastSongInSetlist.energyLevel, " -> ",
                           song.energyLevel>>]
    ELSE [hasWarning |-> FALSE]

\* SongPicker, rendered by the setlist view of a setlist: the row of a song
\* that is not in the setlist calls getFlowWarning(song)
CallGetFlowWarning(song) ==
    /\ pc.at = "return"
    /\ currentView = "setlist" /\ ActiveSetlist # null
    /\ ~includes(ActiveSetlist.songIds, song.id)
    /\ Done("getFlowWarning", song.id)
    /\ pickerSong' = song
    /\ flowWarning' = getFlowWarning(lastSongInSetlistOf(SetlistSongs), song)
    /\ UNCHANGED <<songs, songIds, warnings, setlists, activeSetlistId, nextId,
                   currentView, editingSong, parsedSongs, dragIndex, dragOverIndex,
                   keyVars, timeVars, textVars>>

(***************************************************************************)
(* SpecPicker: the picker over the stores as loadFromStorage returns them, *)
(* on a catalog of three songs of which the third is in no setlist.        *)
(***************************************************************************)

PickerIds == <<"a", "b", "c">>

\* Keys five steps apart, energy levels three apart.
PickerPool ==
    { Song("", k, "Major", e, 120, 200) : k \in {"C", "B"}, e \in {1, 4} }

InitPicker ==
    /\ pc = [fn |-> "Index", at |-> "call", arg |-> nullId]
    /\ songs \in Catalogs(PickerIds, PickerPool)
    /\ \E ids \in Orderings(AllIds, MaxSetlistLen) :
           setlists = <<[newSetlist("s1") EXCEPT !.songIds = ids]>>
    /\ activeSetlistId = "s1"
    /\ currentView = "setlist"
    /\ songIds = <<>> /\ warnings = NoResult
    /\ nextId = 0 /\ editingSong = null /\ parsedSongs = <<>>
    /\ dragIndex = nullIndex /\ dragOverIndex = nullIndex
    /\ TimeIdle /\ KeysIdle /\ TextIdle /\ PickerIdle

NextPicker ==
    \/ RenderIndex
    \/ \E i \in DOMAIN songs : CallGetFlowWarning(songs[i])

SpecPicker == InitPicker /\ [][NextPicker]_vars


(***************************************************************************)
(* SpecLists: the setlists of the first run and of a user who comes back.  *)
(* The stores hold what localStorage holds: nothing, or two songs and two  *)
(* setlists over them, either of which, or none, is the active one.  The   *)
(* other setlists are listed under the active one and can be selected.     *)
(***************************************************************************)

\* The Other Setlists buttons: setActiveSetlistId(setlist.id)
SetActiveSetlistId(id) ==
    /\ currentView = "setlist" /\ Idle
    /\ Len(setlists) > 1
    /\ id # activeSetlistId
    /\ \E i \in DOMAIN setlists : setlists[i].id = id
    /\ Done("setActiveSetlistId", id)
    /\ activeSetlistId' = id
    /\ UNCHANGED <<songs, setlists, nextId, currentView, editingSong, parsedSongs,
                   dragIndex, keyVars, textVars, pickerVars>>
    /\ BuilderKept
    /\ Render

\* What localStorage holds, <<songs, setlists>>: nothing, or two songs and
\* two setlists, the first with both songs, the second with one of them.
ListsStored ==
    {<< <<>>, <<>> >>,
     << RenderSongs,
        <<[newSetlist("s1") EXCEPT !.songIds = <<"a", "b">>],
          [newSetlist("s2") EXCEPT !.songIds = <<"b">>]>> >>}

\* The most setlists in the store in SpecLists.
MaxLists == 2

InitLists ==
    /\ pc = [fn |-> "Index", at |-> "call", arg |-> nullId]
    /\ \E stored \in ListsStored :
           /\ songs = stored[1]
           /\ setlists = stored[2]
           /\ activeSetlistId \in {nullId} \cup {stored[2][i].id : i \in DOMAIN stored[2]}
    /\ currentView = IF Len(songs) > 0 THEN "setlist" ELSE "library"
    /\ songIds = <<>> /\ warnings = NoResult
    /\ nextId = 0 /\ editingSong = null /\ parsedSongs = <<>>
    /\ dragIndex = nullIndex /\ dragOverIndex = nullIndex
    /\ TimeIdle /\ KeysIdle /\ TextIdle /\ PickerIdle

\* The page has been rendered.
Loaded == pc.at = "return"

\* A handler that creates a setlist when none is active has room for it.
CanCreate == ActiveSetlist = null => Len(setlists) < MaxLists

NextLists ==
    \/ RenderIndex
    \/ \E view \in {"library", "setlist"} : Loaded /\ SetCurrentView(view)
    \/ \E form \in AppForms : Loaded /\ songs = <<>> /\ HandleAddSong(form)
    \/ \E i \in DOMAIN songs : Loaded /\ HandleDeleteSong(songs[i].id)
    \/ Loaded /\ CanCreate /\ HandleCreateSetlist
    \/ \E i \in DOMAIN setlists : Loaded /\ SetActiveSetlistId(setlists[i].id)
    \/ \E i \in DOMAIN songs : Loaded /\ CanCreate /\ HandleAddToSetlist(songs[i].id)
    \/ \E i \in DOMAIN songs : Loaded /\ HandleToggleSong(songs[i].id)
    \/ \E i \in DOMAIN songs : Loaded /\ HandleRemoveFromSetlist(songs[i].id)
    \/ \E index \in 0..(MaxSongs - 1) : Loaded /\ HandleDragStart(index)
    \/ \E index \in 0..(MaxSongs - 1) :
           Loaded /\ dragIndex # nullIndex /\ HandleDragOver(index)
    \/ Loaded /\ HandleDragEnd
    \/ Loaded /\ HandleDeleteSetlist

SpecLists == InitLists /\ [][NextLists]_vars


(***************************************************************************)
(* SpecBuilder: the setlist builder over a setlist of three songs.  Its    *)
(* items take dragover from whatever is dragged over them, an item of the  *)
(* list or something from outside it (a file, a selection), and songs are  *)
(* removed from the setlist and put back while the builder is on the page. *)
(***************************************************************************)

BuilderSongs == RenderSongs \o <<Song("c", "C", "Major", 3, 100, 180)>>

InitBuilder ==
    /\ pc = [fn |-> "Index", at |-> "call", arg |-> nullId]
    /\ songs = BuilderSongs
    /\ setlists = <<[newSetlist("s1") EXCEPT !.songIds = <<"a", "b", "c">>]>>
    /\ activeSetlistId = "s1"
    /\ currentView = "setlist"
    /\ songIds = <<>> /\ warnings = NoResult
    /\ nextId = 0 /\ editingSong = null /\ parsedSongs = <<>>
    /\ dragIndex = nullIndex /\ dragOverIndex = nullIndex
    /\ TimeIdle /\ KeysIdle /\ TextIdle /\ PickerIdle

NextBuilder ==
    \/ RenderIndex
    \/ \E view \in {"library", "setlist"} : Loaded /\ SetCurrentView(view)
    \/ \E i \in DOMAIN songs : Loaded /\ HandleToggleSong(songs[i].id)
    \/ \E i \in DOMAIN songs : Loaded /\ HandleRemoveFromSetlist(songs[i].id)
    \/ \E index \in 0..(MaxSongs - 1) : Loaded /\ HandleDragStart(index)
    \/ \E index \in 0..(MaxSongs - 1) : Loaded /\ HandleDragOver(index)
    \/ Loaded /\ HandleDragEnd

SpecBuilder == InitBuilder /\ [][NextBuilder]_vars


(***************************************************************************)
(* Properties of areKeysClashing (SpecKeys).                               *)
(***************************************************************************)

\* The circle of fifths in ascending fifths from C: position = index - 1.
CircleOfFifths == <<"C", "G", "D", "A", "E", "B", "F#", "C#", "G#", "D#", "A#", "F">>

CirclePos(k) == (CHOOSE i \in 1..12 : CircleOfFifths[i] = k) - 1

\* min(|pos(A) - pos(B)|, 12 - |pos(A) - pos(B)|)
CircleDist(a, b) ==
    LET d == IF CirclePos(a) >= CirclePos(b)
             THEN CirclePos(a) - CirclePos(b)
             ELSE CirclePos(b) - CirclePos(a)
    IN  IF d <= 12 - d THEN d ELSE 12 - d

\* C1: areKeysClashing returns false for two identical (key, mode) pairs and
\* otherwise true exactly when the circular distance of the two keys on the
\* circle of fifths is greater than 4, which is to say 5 or 6.
C1_ClashIffDistanceOver4 ==
    Returned("areKeysClashing") =>
        LET d == CircleDist(key1, key2)
        IN  /\ (key1 = key2 /\ mode1 = mode2) => clashing = FALSE
            /\ ~(key1 = key2 /\ mode1 = mode2) =>
                   /\ clashing = (d > 4)
                   /\ clashing = (d \in {5, 6})

\* C1 witness: C and B are 5 apart and clash.
C1_Witness ==
    /\ Returned("areKeysClashing")
    /\ key1 = "C" /\ key2 = "B" /\ CircleDist(key1, key2) = 5
    /\ clashing = TRUE

\* C2: areKeysClashing is symmetric: the value returned for (key1, mode1, key2,
\* mode2) is the value for (key2, mode2, key1, mode1).
C2_Symmetric ==
    Returned("areKeysClashing") =>
        clashing = areKeysClashing(key2, mode2, key1, mode1)

\* C2 witness: a clashing pair whose first key is the lower one on the circle.
C2_Witness ==
    /\ Returned("areKeysClashing")
    /\ KEY_POSITIONS[key1] < KEY_POSITIONS[key2]
    /\ mode1 # mode2
    /\ clashing = TRUE

\* C3: the modes matter only to the identical-pair short-circuit: for two
\* different pitch classes the result is the same for all four combinations of
\* modes, and one pitch class in two different modes is distance 0, no clash.
C3_ModeOnlyInShortCircuit ==
    Returned("areKeysClashing") =>
        /\ key1 # key2 =>
               \A ma \in KEY_MODES, mb \in KEY_MODES :
                   areKeysClashing(key1, ma, key2, mb) = clashing
        /\ (key1 = key2 /\ mode1 # mode2) =>
               /\ CircleDist(key1, key2) = 0
               /\ clashing = FALSE

\* C3 witness: the same pitch class in two modes, past the short-circuit.
C3_Witness ==
    /\ Returned("areKeysClashing")
    /\ key1 = key2 /\ mode1 # mode2
    /\ ~sameKeyAndMode(key1, mode1, key2, mode2)
    /\ clashing = FALSE


(***************************************************************************)
(* Properties of calculateFlowWarnings (SpecFlow, SpecSlow).               *)
(***************************************************************************)

\* The resolved sequence of the call in the state.
Resolved == resolveSongs(songIds, songs)

\* The warnings of one type, in the order returned.
OfType(w, t) == SelectSeq(w, LAMBDA x : x.type = t)

\* The songIndex values of a list of warnings.
Indices(w) == {w[j].songIndex : j \in 1..Len(w)}

\* The adjacent pairs (i-1, i) of the resolved sequence r whose keys clash.
ClashingPairs(r) ==
    {i \in 1..(Len(r) - 1) :
        areKeysClashing(Seq0(r, i - 1).musicalKey, Seq0(r, i - 1).keyMode,
                        Seq0(r, i).musicalKey, Seq0(r, i).keyMode)}

\* C4: a key-clash warning with songIndex i is emitted if and only if
\* 1 <= i <= n-1 and the resolved songs i-1 and i clash; one warning per such
\* pair, none for a pair that does not clash or for songs that are not adjacent.
C4_KeyClashIffAdjacentClash ==
    Returned("calculateFlowWarnings") =>
        LET kc    == OfType(warnings, "key-clash")
            pairs == ClashingPairs(Resolved)
        IN  /\ Indices(kc) = pairs
            /\ Len(kc) = Cardinality(pairs)

\* C4 witness: three resolved songs, the first and third clash but are not
\* adjacent, the pair (1, 2) clashes and the pair (0, 1) does not.
C4_Witness ==
    /\ Returned("calculateFlowWarnings")
    /\ Len(Resolved) = 3
    /\ areKeysClashing(Resolved[1].musicalKey, Resolved[1].keyMode,
                       Resolved[3].musicalKey, Resolved[3].keyMode)
    /\ Indices(OfType(warnings, "key-clash")) = {2}

\* The adjacent pairs (i-1, i) of the resolved sequence r with an energy drop
\* over 2.
EnergyDropPairs(r) ==
    {i \in 1..(Len(r) - 1) : Seq0(r, i - 1).energyLevel - Seq0(r, i).energyLevel > 2}

\* C5: an energy-drop warning with songIndex i is emitted if and only if the
\* energy of resolved song i-1 minus that of song i is greater than 2; a drop of
\* exactly 2, no change and an increase give none.
C5_EnergyDropIffOver2 ==
    Returned("calculateFlowWarnings") =>
        LET ed    == OfType(warnings, "energy-drop")
            pairs == EnergyDropPairs(Resolved)
        IN  /\ Indices(ed) = pairs
            /\ Len(ed) = Cardinality(pairs)

\* C5 witness: energies 4, 1, 1, 4: a drop of 3 with a warning at index 1, then
\* no change and an increase with none.
C5_Witness ==
    /\ Returned("calculateFlowWarnings")
    /\ Len(Resolved) = 4
    /\ Resolved[1].energyLevel = 4 /\ Resolved[2].energyLevel = 1
    /\ Resolved[3].energyLevel = 1 /\ Resolved[4].energyLevel = 4
    /\ Indices(OfType(warnings, "energy-drop")) = {1}

\* Whether song i of the resolved sequence r exists and has bpm < 90.
SlowAt(r, i) == i >= 0 /\ i < Len(r) /\ Seq0(r, i).bpm < 90

\* The index of the third song of every maximal run of at least 3 slow songs.
ThirdOfSlowRuns(r) ==
    {i \in 2..(Len(r) - 1) :
        SlowAt(r, i - 2) /\ SlowAt(r, i - 1) /\ SlowAt(r, i) /\ ~SlowAt(r, i - 3)}

\* C6: exactly one slow-sequence warning per maximal run of at least 3
\* consecutive songs with bpm < 90, at the index of the third song of the run;
\* none for runs of 1 or 2; a song with bpm 90 ends the run and the next run is
\* counted from zero.
C6_OneSlowWarningPerRun ==
    Returned("calculateFlowWarnings") =>
        LET sl     == OfType(warnings, "slow-sequence")
            thirds == ThirdOfSlowRuns(Resolved)
        IN  /\ Indices(sl) = thirds
            /\ Len(sl) = Cardinality(thirds)

\* C6 witness: a run of 3 slow songs, a song with bpm 90, then a run of 2 slow
\* songs and a second song with bpm 90: one warning, at index 2.
C6_Witness ==
    /\ Returned("calculateFlowWarnings")
    /\ Len(Resolved) = 7
    /\ \A i \in {0, 1, 2, 4, 5} : SlowAt(Resolved, i)
    /\ Seq0(Resolved, 3).bpm = 90 /\ Seq0(Resolved, 6).bpm = 90
    /\ Indices(OfType(warnings, "slow-sequence")) = {2}

IsPairWarning(x) == x.type \in {"key-clash", "energy-drop"}

\* C7: the returned list is two passes: first the key-clash and energy-drop
\* warnings by non-decreasing songIndex, key-clash before energy-drop at one
\* index, then the slow-sequence warnings by increasing songIndex; no
\* slow-sequence warning precedes a key-clash or energy-drop warning.
C7_TwoPassOrder ==
    Returned("calculateFlowWarnings") =>
        \E k \in 0..Len(warnings) :
            /\ \A j \in 1..k : IsPairWarning(warnings[j])
            /\ \A j \in (k + 1)..Len(warnings) : warnings[j].type = "slow-sequence"
            /\ \A j \in 1..k, l \in 1..k :
                   j < l =>
                       \/ warnings[j].songIndex < warnings[l].songIndex
                       \/ /\ warnings[j].songIndex = warnings[l].songIndex
                          /\ warnings[j].type = "key-clash"
                          /\ warnings[l].type = "energy-drop"
            /\ \A j \in (k + 1)..Len(warnings), l \in (k + 1)..Len(warnings) :
                   j < l => warnings[j].songIndex < warnings[l].songIndex

\* C7 witness: a key clash and an energy drop at one index, two slow-sequence
\* warnings, and a pair warning at a higher index than the slow-sequence
\* warning that follows it in the list.
C7_Witness ==
    /\ Returned("calculateFlowWarnings")
    /\ \E j \in 1..(Len(warnings) - 1) :
           /\ warnings[j].type = "key-clash"
           /\ warnings[j + 1].type = "energy-drop"
           /\ warnings[j + 1].songIndex = warnings[j].songIndex
    /\ Len(OfType(warnings, "slow-sequence")) = 2
    /\ \E j \in 1..Len(warnings), l \in 1..Len(warnings) :
           /\ j < l
           /\ IsPairWarning(warnings[j])
           /\ warnings[l].type = "slow-sequence"
           /\ warnings[l].songIndex < warnings[j].songIndex

\* The ids of the catalog in the state.
CatalogIdSet == {songs[i].id : i \in 1..Len(songs)}

\* C8: the ids of songIds that match no catalog song are dropped and every
\* songIndex is an index into the resolved sequence: the warnings are those of
\* the same ordering with the stale ids removed.
C8_StaleIdsDropped ==
    Returned("calculateFlowWarnings") =>
        /\ warnings = calculateFlowWarnings(
                          SelectSeq(songIds, LAMBDA id : id \in CatalogIdSet), songs)
        /\ \A j \in 1..Len(warnings) :
               warnings[j].songIndex \in 0..(Len(Resolved) - 1)

\* C8 witness: the ordering [A, X (stale), B, A]: the resolved sequence is
\* [A, B, A] and the key clash between B and the song after it is at position
\* 2; nothing is at position 3.
C8_Witness ==
    /\ Returned("calculateFlowWarnings")
    /\ Len(songIds) = 4 /\ Len(Resolved) = 3
    /\ songIds[1] \in CatalogIdSet /\ songIds[2] \in StaleIds
    /\ songIds[3] \in CatalogIdSet \ {songIds[1]} /\ songIds[4] = songIds[1]
    /\ 2 \in Indices(OfType(warnings, "key-clash"))
    /\ 3 \notin Indices(warnings)


(***************************************************************************)
(* Properties of calculateTimeStatus (SpecTime).                           *)
(***************************************************************************)

\* C9: exactly one status is returned, decided by difference = totalSeconds -
\* targetSeconds and a tolerance of 120 seconds: over iff difference > 120,
\* close iff 0 < difference <= 120, good iff -120 <= difference <= 0, under iff
\* difference < -120.
C9_StatusByDifference ==
    Returned("calculateTimeStatus") =>
        LET d  == totalSeconds - (targetMinutes - changeoverMinutes) * 60
            st == timeStatus.status
        IN  /\ st \in {"under", "good", "close", "over"}
            /\ (st = "over")  <=> (d > 120)
            /\ (st = "close") <=> (0 < d /\ d <= 120)
            /\ (st = "good")  <=> (-120 <= d /\ d <= 0)
            /\ (st = "under") <=> (d < -120)

\* C9 witness: a difference of exactly 120 is close.
C9_Witness ==
    /\ Returned("calculateTimeStatus")
    /\ totalSeconds - (targetMinutes - changeoverMinutes) * 60 = 120
    /\ timeStatus.status = "close"

\* C10: targetSeconds = (targetMinutes - changeoverMinutes) * 60 with no floor
\* at zero and difference = totalSeconds - targetSeconds; when changeoverMinutes
\* > targetMinutes, targetSeconds is negative, the difference exceeds
\* totalSeconds and a status is still returned.
C10_TargetSecondsNotFloored ==
    Returned("calculateTimeStatus") =>
        /\ timeStatus.targetSeconds = (targetMinutes - changeoverMinutes) * 60
        /\ timeStatus.difference = totalSeconds - timeStatus.targetSeconds
        /\ changeoverMinutes > targetMinutes =>
               /\ timeStatus.targetSeconds < 0
               /\ timeStatus.difference > totalSeconds
               /\ timeStatus.status \in {"under", "good", "close", "over"}

\* C10 witness: a slot of 1 minute with a changeover of 3 and no music: the
\* target is -120 seconds and the difference 120.
C10_Witness ==
    /\ Returned("calculateTimeStatus")
    /\ targetMinutes = 1 /\ changeoverMinutes = 3 /\ totalSeconds = 0
    /\ timeStatus.targetSeconds = -120
    /\ timeStatus.difference = 120


(***************************************************************************)
(* The comment above KEY_POSITIONS (SpecKeys).                             *)
(***************************************************************************)

IsTipKey(str) ==
    \E name \in DOMAIN keyMap : str = name \/ str = name \o <<"m">>

TipName(str) == IF str \in DOMAIN keyMap THEN str ELSE dropLast(str)

\* C18: parseMusicalKey accepts every key written as a mapped note name with
\* an optional trailing m: the result is not null, its key is the pitch class
\* of the note name and its mode is Minor exactly when the m is there.
C18_TipKeysAccepted ==
    (Returned("parseMusicalKey") /\ IsTipKey(keyStr)) =>
        /\ parsedKey # null
        /\ parsedKey = [key  |-> keyMap[TipName(keyStr)],
                        mode |-> IF keyStr \in DOMAIN keyMap
                                 THEN "Major" ELSE "Minor"]

(***************************************************************************)
(* Properties of the setlist settings (SpecSettings).                      *)
(***************************************************************************)

\* TimeDisplay is on the page, so calculateTimeStatus was called by the render.
TimeDisplayShown == ActiveSetlist # null /\ currentView = "setlist"

\* C13: from the defaults of createSetlist (60 and 5), after any sequence of
\* edits of the two minutes fields, targetMinutes and changeoverMinutes of
\* every setlist are 0 or more, an entry that is negative or not a number is
\* stored as 0, and calculateTimeStatus is only called with such minutes.
C13_MinutesNeverNegative ==
    /\ \A i \in DOMAIN setlists :
           setlists[i].targetMinutes >= 0 /\ setlists[i].changeoverMinutes >= 0
    /\ TimeDisplayShown =>
           /\ targetMinutes >= 0 /\ changeoverMinutes >= 0
           /\ timeStatus = calculateTimeStatus(totalSeconds, targetMinutes,
                                               changeoverMinutes)
    /\ (Ran("handleSlotTimeChange")
           /\ (isNaN(parseInt(pc.arg)) \/ parseInt(pc.arg)[1] < 0)) =>
               ActiveSetlist.targetMinutes = 0
    /\ (Ran("handleChangeoverChange")
           /\ (isNaN(parseInt(pc.arg)) \/ parseInt(pc.arg)[1] < 0)) =>
               ActiveSetlist.changeoverMinutes = 0

\* C13 witness: -4 was typed into the slot time of a setlist whose changeover
\* had been set to 40; 0 is stored and the time status is computed from 0 and 40.
C13_Witness ==
    /\ Ran("handleSlotTimeChange")
    /\ pc.arg = <<"-", "4">>
    /\ ActiveSetlist.targetMinutes = 0
    /\ ActiveSetlist.changeoverMinutes = 40
    /\ TimeDisplayShown
    /\ targetMinutes = 0 /\ changeoverMinutes = 40

(***************************************************************************)
(* Properties of the setlist handlers (SpecApp).                           *)
(***************************************************************************)

\* The list without its element at a 0-based position.
Without(ids, at) == SubSeq(ids, 1, at) \o SubSeq(ids, at + 2, Len(ids))

\* The list without every occurrence of an id.
WithoutId(ids, id) == LET Keep(x) == x # id IN SelectSeq(ids, Keep)

\* new is old with the element at from moved to the position to.
IsMove(old, new, from, to) ==
    /\ Len(new) = Len(old)
    /\ Seq0(new, to) = Seq0(old, from)
    /\ Without(new, to) = Without(old, from)

\* What a step that ran an edit of the setlist must have done to the songIds
\* of the active setlist, whatever the warnings were and are.
EditTookEffect ==
    LET old == IF ActiveSetlist = null THEN <<>> ELSE ActiveSetlist.songIds
        new == ActiveSetlist'.songIds
        fn  == pc'.fn
        arg == pc'.arg
    IN  /\ fn \in {"handleAddToSetlist", "handleToggleSong",
                   "handleRemoveFromSetlist", "handleDragEnd"} =>
               ActiveSetlist' # null
        /\ fn = "handleAddToSetlist" =>
               new = IF includes(old, arg) THEN old ELSE Append(old, arg)
        /\ fn = "handleToggleSong" =>
               new = IF includes(old, arg) THEN WithoutId(old, arg)
                     ELSE Append(old, arg)
        /\ fn = "handleRemoveFromSetlist" => new = WithoutId(old, arg)
        /\ fn = "handleDragEnd" =>
               IF arg[2] # nullIndex /\ arg[1] # arg[2]
               THEN IsMove(old, new, arg[1], arg[2])
               ELSE new = old

\* C14: flow warnings never block an edit: adding a song, removing a song and
\* reordering change the songIds of the active setlist as asked whether or
\* not there are warnings before or after, and the new songIds is a function
\* of the old songIds and the request alone.
C14_WarningsNeverBlock == [][EditTookEffect]_vars

\* C14 witness: a song was added to the end of a setlist although the result
\* has a flow warning at its position.
C14_Witness ==
    /\ Ran("handleAddToSetlist")
    /\ Len(songIds) >= 2
    /\ songIds[Len(songIds)] = pc.arg
    /\ \E i \in DOMAIN warnings : warnings[i].songIndex = Len(songIds) - 1

\* C19: a song imported without a duration (durationSeconds 0) cannot be added
\* to a setlist until its duration is set: no setlist's songIds holds the id
\* of a song of the catalog whose durationSeconds is 0.
C19_NoSongWithoutDurationInSetlist ==
    \A i \in DOMAIN setlists :
        \A j \in DOMAIN setlists[i].songIds :
            LET song == find(songs, setlists[i].songIds[j])
            IN  song # undefined => song.durationSeconds # 0

(***************************************************************************)
(* Properties of the song form and the import (SpecCatalog, SpecImport).   *)
(***************************************************************************)

\* C15: every song that entered the catalog or was updated in it through the
\* song form or the import has a whole bpm from 1 to 300 and a whole
\* energyLevel from 1 to 5; the import puts 120 and 3 where the cell is empty.
C15_BpmAndEnergyInRange ==
    \A i \in DOMAIN songs :
        /\ songs[i].bpm \in 1..300
        /\ songs[i].energyLevel \in 1..5

\* C15 witness: the catalog holds a song imported from a row with no BPM and
\* no energy, which got 120 and 3, and a song whose form had BPM 300 and
\* energy 5, the top of both ranges.
C15_Witness ==
    /\ Len(songs) = 2
    /\ \E i \in DOMAIN songs : songs[i].bpm = 120 /\ songs[i].energyLevel = 3
    /\ \E i \in DOMAIN songs : songs[i].bpm = 300 /\ songs[i].energyLevel = 5
    /\ Ran("handleEditSong")

\* The rows of a preview that are valid: a title, and no error on a field.
ValidRows(preview) ==
    LET Valid(s) == s.title # <<>> /\ s.errors = <<>> IN SelectSeq(preview, Valid)

\* A song of the catalog is the song of a row: the fields are the row's, with
\* 0, 120, C Major and 3 where the row has nothing.
IsSongOfRow(song, row) ==
    /\ song.title = row.title
    /\ song.durationSeconds = orElse(parseDurationString(row.duration), 0)
    /\ song.bpm = IF row.bpm = <<>> THEN 120 ELSE parseInt(row.bpm)[1]
    /\ row.musicalKey = <<>> => song.musicalKey = "C" /\ song.keyMode = "Major"
    /\ row.musicalKey # <<>> => song.musicalKey = keyMap[TipName(row.musicalKey)]
    /\ song.energyLevel = IF row.energyLevel = <<>> THEN 3
                          ELSE parseInt(row.energyLevel)[1]

\* What a step that confirmed an import must have done to the catalog.
ImportAddedValidRows ==
    pc'.fn = "handleImport" =>
        LET valid == ValidRows(parsedSongs)
            n     == Len(songs)
        IN  /\ Len(songs') = n + Len(valid)
            /\ SubSeq(songs', 1, n) = songs
            /\ \A k \in DOMAIN valid : IsSongOfRow(songs'[n + k], valid[k])
            /\ \A k \in DOMAIN valid :
                   /\ \A j \in 1..n : songs'[n + k].id # songs[j].id
                   /\ \A j \in DOMAIN valid : j # k => songs'[n + k].id # songs'[n + j].id
            /\ valid = <<>> => songs' = songs

\* C20: confirming an import adds exactly the valid rows of the preview, one
\* song per valid row, after the songs already in the catalog and in row
\* order; rows with an error add nothing, the songs already there are not
\* changed, and without a valid row the catalog is not changed.
C20_ImportAddsValidRows == [][ImportAddedValidRows]_vars

\* C20 witness: the catalog held the song T, which only the form makes; a
\* preview of three rows was confirmed, one of them not valid; the catalog is
\* T, A, B.
C20_Witness ==
    /\ Ran("handleImport")
    /\ pc.arg = 3
    /\ Len(songs) = 3
    /\ songs[1].title = <<"T">> /\ songs[2].title = <<"A">> /\ songs[3].title = <<"B">>
    /\ songs[2].musicalKey = "G" /\ songs[2].keyMode = "Minor" /\ songs[2].durationSeconds = 225
    /\ songs[3].durationSeconds = 0 /\ songs[3].bpm = 120

(***************************************************************************)
(* Properties of the render (SpecRender).                                  *)
(***************************************************************************)

\* The sum of durationSeconds over the positions of a list of ids whose id is
\* in the catalog; a position whose id is not adds nothing.
RECURSIVE DurationOfIds(_, _)
DurationOfIds(ids, catalog) ==
    IF ids = <<>> THEN 0
    ELSE LET here == {i \in DOMAIN catalog : catalog[i].id = Head(ids)}
         IN  (IF here = {} THEN 0
              ELSE catalog[CHOOSE i \in here : \A j \in here : i <= j].durationSeconds)
             + DurationOfIds(Tail(ids), catalog)

\* C11: calculateFlowWarnings and calculateTimeStatus leave their inputs as
\* they were: over the render that calls them the songIds of every setlist,
\* every Song record of the catalog, the setlists and the active setlist are
\* the same after as before, and the ids handed over are those of the store.
C11_EngineCallsChangeNothing ==
    [][(pc.at = "call" /\ pc'.at = "return") =>
           /\ songs' = songs
           /\ setlists' = setlists
           /\ activeSetlistId' = activeSetlistId
           /\ ActiveSetlist # null => songIds' = ActiveSetlist.songIds]_vars

\* C11 witness: a render that called both functions, on a setlist with an id
\* the catalog does not have, and got a warning; the setlist still holds the id.
C11_Witness ==
    /\ Ran("Index")
    /\ TimeDisplayShown
    /\ ActiveSetlist.songIds = <<"a", "x", "b">>
    /\ Len(warnings) = 2
    /\ timeStatus.status = "over"

\* C16: the totalSeconds handed to calculateTimeStatus is the sum of
\* durationSeconds over the songs of the active setlist that resolve in the
\* catalog, position by position; an id that does not resolve adds nothing,
\* and the total is 0 without an active setlist or without a resolved song.
C16_TotalIsSumOfResolved ==
    Ran("Index") =>
        /\ ActiveSetlist = null => totalSeconds = 0
        /\ ActiveSetlist # null =>
               totalSeconds = DurationOfIds(ActiveSetlist.songIds, songs)
        /\ (ActiveSetlist # null /\ SetlistSongs = <<>>) => totalSeconds = 0
        /\ TimeDisplayShown =>
               timeStatus = calculateTimeStatus(
                                DurationOfIds(ActiveSetlist.songIds, songs),
                                ActiveSetlist.targetMinutes,
                                ActiveSetlist.changeoverMinutes)

\* C16 witness: the setlist b, x, a, b over the catalog a (200 s), b (45 s):
\* x adds nothing, b counts at both of its positions, the total is 290.
C16_Witness ==
    /\ Ran("Index")
    /\ TimeDisplayShown
    /\ ActiveSetlist.songIds = <<"b", "x", "a", "b">>
    /\ Len(songs) = 2
    /\ totalSeconds = 290
    /\ timeStatus.difference = 290 - (ActiveSetlist.targetMinutes
                                          - ActiveSetlist.changeoverMinutes) * 60

(***************************************************************************)
(* Properties of the warnings' positions (SpecSlow).                       *)
(***************************************************************************)

\* The 0-based positions a warning of type t may stand on in a resolved
\* sequence of n songs: the second song of a pair, the third song of a run.
WarningPositions(t, n) ==
    IF t = "slow-sequence" THEN 2..(n - 1) ELSE 1..(n - 1)

\* C25: every warning calculateFlowWarnings returns has a songIndex that is an
\* index of the resolved sequence of length n: from 1 to n-1 for key-clash and
\* energy-drop, from 2 to n-1 for slow-sequence; so there is no warning when
\* n <= 1; and no two warnings of one type have the same songIndex.
C25_WarningIndexInRange ==
    Returned("calculateFlowWarnings") =>
        LET n == Len(Resolved)
        IN  /\ \A j \in DOMAIN warnings :
                   /\ warnings[j].type \in {"key-clash", "energy-drop", "slow-sequence"}
                   /\ warnings[j].songIndex \in WarningPositions(warnings[j].type, n)
            /\ n <= 1 => warnings = <<>>
            /\ \A j, k \in DOMAIN warnings :
                   (j # k /\ warnings[j].type = warnings[k].type) =>
                       warnings[j].songIndex # warnings[k].songIndex

\* C25 witness: three songs resolved out of four ids, and a warning of each of
\* the three types on the last of them, index 2.
C25_Witness ==
    /\ Returned("calculateFlowWarnings")
    /\ Len(songIds) = 4 /\ Len(Resolved) = 3
    /\ \A t \in {"key-clash", "energy-drop", "slow-sequence"} :
           \E j \in DOMAIN warnings :
               warnings[j].type = t /\ warnings[j].songIndex = 2

(***************************************************************************)
(* Properties of the order of the statuses (SpecTime).                     *)
(***************************************************************************)

\* The place of a status in the order under < good < close < over.
StatusRank(status) ==
    CASE status = "under" -> 0
      [] status = "good"  -> 1
      [] status = "close" -> 2
      [] status = "over"  -> 3

\* C27: calculateTimeStatus is monotone in totalSeconds: with targetMinutes and
\* changeoverMinutes fixed, the status returned for a total is never below, in
\* the order under < good < close < over, the status of any smaller total; so
\* a longer setlist is never nearer to under and a shorter one never nearer to
\* over.
C27_StatusMonotone ==
    Returned("calculateTimeStatus") =>
        LET rank == StatusRank(timeStatus.status)
        IN  \A t1 \in (-MaxTotalSeconds)..totalSeconds :
                StatusRank(calculateTimeStatus(t1, targetMinutes,
                                               changeoverMinutes).status) <= rank

\* C27 witness: a total whose status is over, with a target for which the
\* smaller totals of the range pass through under, good and close.
C27_Witness ==
    /\ Returned("calculateTimeStatus")
    /\ timeStatus.status = "over"
    /\ \A st \in {"under", "good", "close"} :
           \E t1 \in (-MaxTotalSeconds)..totalSeconds :
               calculateTimeStatus(t1, targetMinutes, changeoverMinutes).status = st

(***************************************************************************)
(* Properties of the picker's preview (SpecPicker).                        *)
(***************************************************************************)

\* Whether calculateFlowWarnings, given the ordering with the id appended,
\* returns a key-clash or an energy-drop warning on the last song it resolves.
EngineWarnsOnAppended(ids, id, catalog) ==
    LET appended == Append(ids, id)
        last     == Len(resolveSongs(appended, catalog)) - 1
        w        == calculateFlowWarnings(appended, catalog)
    IN  \E j \in DOMAIN w :
            /\ w[j].type \in {"key-clash", "energy-drop"}
            /\ w[j].songIndex = last

\* C26: the preview of the picker agrees with the engine: for a song of the
\* catalog that is not in the active setlist, getFlowWarning reports
\* hasWarning exactly when calculateFlowWarnings on the setlist with that song
\* appended returns a key-clash or an energy-drop warning at the new last
\* position; on an empty setlist it reports none.
C26_PreviewAgreesWithEngine ==
    Ran("getFlowWarning") =>
        /\ flowWarning.hasWarning =
               EngineWarnsOnAppended(ActiveSetlist.songIds, pickerSong.id, songs)
        /\ ActiveSetlist.songIds = <<>> => ~flowWarning.hasWarning

\* C26 witness: the preview warns of an energy drop between two songs in the
\* same key, the last song of the setlist being followed in songIds by an id
\* that resolves to no song.
C26_Witness ==
    /\ Ran("getFlowWarning")
    /\ flowWarning.hasWarning
    /\ Len(songIds) >= 2
    /\ find(songs, songIds[Len(songIds)]) = undefined
    /\ LET last == lastSongInSetlistOf(SetlistSongs)
       IN  /\ last # null
           /\ last.musicalKey = pickerSong.musicalKey
           /\ last.energyLevel - pickerSong.energyLevel = 3

(***************************************************************************)
(* Properties of the stores (SpecLists).                                   *)
(***************************************************************************)

\* The ids of the songs of the catalog.
SongIdsOf(catalog) == {catalog[i].id : i \in DOMAIN catalog}

\* C21: every id in the songIds of every setlist, active or not, is the id of
\* a song of the catalog, so every setlist resolves to as many songs as it
\* has ids; deleting a song takes its id out of every setlist.
C21_SetlistIdsInCatalog ==
    \A i \in DOMAIN setlists :
        /\ \A j \in DOMAIN setlists[i].songIds :
               setlists[i].songIds[j] \in SongIdsOf(songs)
        /\ Len(resolveSongs(setlists[i].songIds, songs)) = Len(setlists[i].songIds)

\* C21 witness: song b, which was in both setlists, has been deleted while the
\* first setlist was the active one, and neither setlist holds its id.
C21_Witness ==
    /\ Ran("handleDeleteSong") /\ pc.arg = "b"
    /\ activeSetlistId = "s1"
    /\ Len(setlists) = 2
    /\ setlists[1].id = "s1" /\ setlists[1].songIds = <<"a">>
    /\ setlists[2].id = "s2" /\ setlists[2].songIds = <<>>

\* activeSetlistId is null or the id of a setlist of the store.
ActiveIdValid ==
    activeSetlistId = nullId \/ \E i \in DOMAIN setlists : setlists[i].id = activeSetlistId

\* What a step does to the setlists and the active id: the active id stays
\* null or the id of a setlist; the Delete Setlist button takes the active
\* setlist out of the store, leaves the others as they were and sets the
\* active id to null; selecting a listed setlist makes it the active one and
\* changes no setlist.
ActiveIdStep ==
    LET fn == pc'.fn
    IN  /\ ActiveIdValid /\ ActiveIdValid'
        /\ fn = "deleteSetlist" =>
               /\ activeSetlistId' = nullId
               /\ setlists' = SelectSeq(setlists, LAMBDA l : l.id # pc'.arg)
               /\ pc'.arg = activeSetlistId
        /\ fn = "setActiveSetlistId" =>
               /\ activeSetlistId' = pc'.arg
               /\ setlists' = setlists
        /\ fn = "handleCreateSetlist" =>
               /\ activeSetlistId' = pc'.arg
               /\ setlists' = Append(setlists, newSetlist(pc'.arg))

\* C24: through creating, selecting and deleting setlists, activeSetlistId is
\* always null or the id of a setlist of the store: deleting the active
\* setlist sets it to null and leaves every other setlist, with its songIds,
\* as it was.
C24_ActiveIdNullOrExisting == [][ActiveIdStep]_vars

\* C24 witness: of the two setlists the first, once the active one, has been
\* deleted; the second is in the store with its song, and no setlist is
\* active.
C24_Witness ==
    /\ Ran("deleteSetlist") /\ pc.arg = "s1"
    /\ activeSetlistId = nullId
    /\ Len(setlists) = 1
    /\ setlists[1].id = "s2" /\ setlists[1].songIds = <<"b">>

\* No id stands twice in the songIds of any setlist.
NoSongTwice ==
    \A i \in DOMAIN setlists :
        \A j, k \in DOMAIN setlists[i].songIds :
            j # k => setlists[i].songIds[j] # setlists[i].songIds[k]

\* No step puts an id twice into a setlist, and an add of a song that is in
\* the active setlist changes no setlist.
NoSongTwiceStep ==
    /\ NoSongTwice /\ NoSongTwice'
    /\ (/\ pc'.fn = "handleAddToSetlist"
        /\ ActiveSetlist # null
        /\ includes(ActiveSetlist.songIds, pc'.arg)) =>
           setlists' = setlists

\* C22: no setlist ever holds the same song id twice: after add-to-setlist
\* (with or without an active setlist), picker toggle, remove, reorder and
\* delete-song the songIds of every setlist are pairwise distinct, and adding
\* a song that is in the active setlist leaves its songIds unchanged.
C22_NoDuplicateIds == [][NoSongTwiceStep]_vars

\* C22 witness: Add to setlist was pressed on a song that was in the active
\* setlist, before other songs: it stands there once, where it stood.
C22_Witness ==
    /\ Ran("handleAddToSetlist")
    /\ Len(songIds) >= 2
    /\ songIds[1] = pc.arg
    /\ \A j \in 2..Len(songIds) : songIds[j] # pc.arg

(***************************************************************************)
(* Properties of the drag reorder (SpecBuilder).                           *)
(***************************************************************************)

\* What a step that ran handleDragEnd must have done: with both indices set
\* and different, the new songIds has the length of the old, the id that
\* stood at dragIndex stands at dragOverIndex, and the other ids are in the
\* order they were in; otherwise songIds is as it was; and the drag state is
\* null.
DragEndIsMove ==
    pc'.fn = "handleDragEnd" =>
        LET old == ActiveSetlist.songIds
            new == ActiveSetlist'.songIds
        IN  /\ IF dragIndex # nullIndex /\ dragOverIndex # nullIndex
                  /\ dragIndex # dragOverIndex
               THEN /\ Len(new) = Len(old)
                    /\ dragOverIndex < Len(new)
                    /\ Seq0(new, dragOverIndex) = Seq0(old, dragIndex)
                    /\ Without(new, dragOverIndex) = Without(old, dragIndex)
               ELSE new = old
            /\ dragIndex' = nullIndex /\ dragOverIndex' = nullIndex

\* C23: a drag reorder is a pure move: when dragIndex and dragOverIndex are
\* both set and differ, the new songIds is a permutation of the old one of the
\* same length in which the dragged id is at index dragOverIndex and the other
\* ids keep their order; when an index is unset or the two are equal, songIds
\* is unchanged; in every case the drag state is null afterwards.
C23_DragIsPureMove == [][DragEndIsMove]_vars

=============================================================================
